---- MODULE Spec2Model ----
(***************************************************************************)
(* Model of the path validation and the search engine of the file server   *)
(* (src/file_server/files.py, class FileManager), of the tools that serve  *)
(* them and of the server's start-up (src/file_server/server.py), on a     *)
(* POSIX host.                                                             *)
(*                                                                         *)
(* Paths are strings, exactly as in the code: every path test of the code  *)
(* (startswith, split, basename, fnmatch) is a test on characters, and the *)
(* model keeps it one.  File contents are byte sequences (sequences of     *)
(* numbers 0..255) and text is a sequence of code points.                  *)
(***************************************************************************)
EXTENDS Integers, Sequences, FiniteSets, TLC

(***************************************************************************)
(* Strings                                                                 *)
(***************************************************************************)
sep == "/"

CharAt(s, i) == SubSeq(s, i, i)

startswith(s, prefix) ==
    /\ Len(prefix) <= Len(s)
    /\ SubSeq(s, 1, Len(prefix)) = prefix

endswith(s, suffix) ==
    /\ Len(suffix) <= Len(s)
    /\ SubSeq(s, Len(s) - Len(suffix) + 1, Len(s)) = suffix

HasChar(s, c) == \E i \in 1..Len(s) : CharAt(s, i) = c

CountChar(s, c) == Cardinality({i \in 1..Len(s) : CharAt(s, i) = c})

\* index of the last occurrence of c in s, 0 when there is none
RECURSIVE LastIndexFrom(_, _, _)
LastIndexFrom(s, c, i) ==
    IF i = 0 \/ CharAt(s, i) = c THEN i ELSE LastIndexFrom(s, c, i - 1)

LastIndex(s, c) == LastIndexFrom(s, c, Len(s))

\* str.split(sep): the pieces between separators, empty pieces kept
RECURSIVE SplitFrom(_, _, _)
SplitFrom(s, start, i) ==
    IF i > Len(s) THEN <<SubSeq(s, start, Len(s))>>
    ELSE IF CharAt(s, i) = sep
         THEN <<SubSeq(s, start, i - 1)>> \o SplitFrom(s, i + 1, i + 1)
         ELSE SplitFrom(s, start, i + 1)

split(s) == SplitFrom(s, 1, 1)

RECURSIVE JoinSep(_)
JoinSep(parts) ==
    IF parts = <<>> THEN ""
    ELSE IF Len(parts) = 1 THEN parts[1]
    ELSE parts[1] \o sep \o JoinSep(Tail(parts))

(***************************************************************************)
(* os.path (posixpath)                                                     *)
(***************************************************************************)
\* the working directory of the server process
getcwd == "/data"

isabs(path) == startswith(path, sep)

join(a, b) ==
    IF isabs(b) THEN b
    ELSE IF a = "" \/ endswith(a, sep) THEN a \o b
    ELSE a \o sep \o b

basename(path) == SubSeq(path, LastIndex(path, sep) + 1, Len(path))

RECURSIVE NormComps(_, _, _)
NormComps(comps, new_comps, initial_slashes) ==
    IF comps = <<>> THEN new_comps
    ELSE LET comp == Head(comps)
             rest == Tail(comps)
         IN  IF comp = "" \/ comp = "."
             THEN NormComps(rest, new_comps, initial_slashes)
             ELSE IF \/ comp # ".."
                     \/ (initial_slashes = 0 /\ new_comps = <<>>)
                     \/ (new_comps # <<>> /\ new_comps[Len(new_comps)] = "..")
             THEN NormComps(rest, Append(new_comps, comp), initial_slashes)
             ELSE IF new_comps # <<>>
             THEN NormComps(rest, SubSeq(new_comps, 1, Len(new_comps) - 1),
                            initial_slashes)
             ELSE NormComps(rest, new_comps, initial_slashes)

InitialSlashes(path) ==
    IF ~startswith(path, "/") THEN 0
    ELSE IF startswith(path, "//") /\ ~startswith(path, "///") THEN 2 ELSE 1

Slashes(initial_slashes) ==
    IF initial_slashes = 2 THEN "//"
    ELSE IF initial_slashes = 1 THEN "/" ELSE ""

OrDot(path) == IF path = "" THEN "." ELSE path

NormWith(path, initial_slashes) ==
    OrDot(Slashes(initial_slashes)
          \o JoinSep(NormComps(split(path), <<>>, initial_slashes)))

normpath(path) ==
    IF path = "" THEN "." ELSE NormWith(path, InitialSlashes(path))

abspath(path) ==
    IF isabs(path) THEN normpath(path) ELSE normpath(join(getcwd, path))

(***************************************************************************)
(* fnmatch.fnmatch on POSIX (case-sensitive).  The patterns of the model   *)
(* use '*', '?' and literal characters; bracket expressions do not occur   *)
(* in the default restriction data nor in the inputs drawn below.          *)
(***************************************************************************)
RECURSIVE GlobFrom(_, _, _, _)
GlobFrom(name, i, pat, j) ==
    IF j > Len(pat) THEN i > Len(name)
    ELSE IF CharAt(pat, j) = "*"
         THEN \/ GlobFrom(name, i, pat, j + 1)
              \/ (i <= Len(name) /\ GlobFrom(name, i + 1, pat, j))
    ELSE IF CharAt(pat, j) = "?"
         THEN i <= Len(name) /\ GlobFrom(name, i + 1, pat, j + 1)
    ELSE /\ i <= Len(name)
         /\ CharAt(name, i) = CharAt(pat, j)
         /\ GlobFrom(name, i + 1, pat, j + 1)

\* a pattern that ends in a literal character matches only names that end in
\* that character; every other case is matched character by character
fnmatch(name, pat) ==
    IF Len(pat) >= 1 /\ Len(name) >= 1
       /\ CharAt(pat, Len(pat)) \notin {"*", "?"}
       /\ CharAt(name, Len(name)) # CharAt(pat, Len(pat))
    THEN FALSE
    ELSE GlobFrom(name, 1, pat, 1)


(***************************************************************************)
(* Built-in restriction data                                               *)
(***************************************************************************)
\* the pattern groups, in the order of the dictionary
DEFAULT_IGNORE_PATTERNS == <<
    <<".git*", ".hg", ".svn", ".bzr">>,
    <<".DS_Store", "Thumbs.db", "desktop.ini", "$RECYCLE.BIN">>,
    <<".vscode", ".idea", "*.sublime-*", "*.code-workspace">>,
    <<"__pycache__", ".pytest_cache", ".mypy_cache", ".coverage",
      "*.pyc", "*.pyo", "*.pyd">>,
    <<"node_modules", "bower_components", "vendor">>,
    <<"*.log", "*.tmp", "*.swp", "*.bak", "*.cache">>,
    <<"*.crt", "*.key", "*.pem", "*.pfx", "*.p12">>,
    <<"*.cfg", "*.conf", "*.ini", "*.env">>,
    <<"*.sqlite*", "*.db*", "*.mdb">>,
    <<"*.tar", "*.gz", "*.zip", "*.rar", "*.7z", "*.bz2">>,
    <<"*.min.*", "*.map">> >>

DEFAULT_RESTRICTED_PATHS == <<
    "/etc", "/var", "/root", "/sys", "/proc", "/boot",
    "C:\\Windows", "C:\\Program Files", "C:\\Program Files (x86)",
    "C:\\Users\\*\\AppData",
    "/usr/bin", "/bin", "/sbin", "/system" >>

(***************************************************************************)
(* Construction of the restriction sets                                    *)
(***************************************************************************)
\* a rule that looks for the '.' in the whole pattern
IsFolderPatternByWholeName(pattern) ==
    endswith(pattern, "/") \/ ~HasChar(pattern, ".")

IsFolderPattern(pattern) ==
    endswith(pattern, "/") \/ ~HasChar(basename(pattern), ".")

_categorize_patterns(patterns) ==
    [folder |-> SelectSeq(patterns, LAMBDA p : IsFolderPattern(p)),
     file   |-> SelectSeq(patterns, LAMBDA p : ~IsFolderPattern(p))]

\* extend the two lists with the categorized patterns of a group
Extend(acc, c) ==
    [folder |-> acc.folder \o c.folder, file |-> acc.file \o c.file]

RECURSIVE AddGroups(_, _)
AddGroups(acc, groups) ==
    IF groups = <<>> THEN acc
    ELSE AddGroups(Extend(acc, _categorize_patterns(Head(groups))),
                   Tail(groups))

_add_default_restrictions ==
    AddGroups([folder |-> DEFAULT_RESTRICTED_PATHS, file |-> <<>>],
              DEFAULT_IGNORE_PATTERNS)

_normalize_folder_paths(folder_paths) ==
    [i \in 1..Len(folder_paths) |->
        IF isabs(folder_paths[i]) THEN abspath(normpath(folder_paths[i]))
        ELSE folder_paths[i]]

\* the folder restrictions: the absolute ones normalized, then the relative
SplitFolders(folders) ==
    _normalize_folder_paths(SelectSeq(folders, LAMBDA p : isabs(p)))
    \o SelectSeq(folders, LAMBDA p : ~isabs(p))

\* restrictions that start from the defaults whatever the caller asks for
GroupedWithDefaults(ignore_patterns, include_defaults) ==
    AddGroups(_add_default_restrictions, ignore_patterns)

\* the defaults, when asked for, extended with the caller's pattern groups
Grouped(ignore_patterns, include_defaults) ==
    AddGroups(IF include_defaults THEN _add_default_restrictions
              ELSE [folder |-> <<>>, file |-> <<>>],
              ignore_patterns)

\* ignore_patterns is the sequence of the caller's pattern groups
_initialize_restrictions(r_folders, r_files, ignore_patterns, include_defaults) ==
    [folder |-> SplitFolders(Grouped(ignore_patterns, include_defaults).folder
                             \o r_folders),
     file   |-> Grouped(ignore_patterns, include_defaults).file \o r_files]

(***************************************************************************)
(* The manager's fields, fixed by the constructor                          *)
(***************************************************************************)
VARIABLES root_folders, restricted_folders, restricted_files

(***************************************************************************)
(* PathGuard                                                               *)
(***************************************************************************)
_is_in_root_folders(path) ==
    \E i \in 1..Len(root_folders) : startswith(path, root_folders[i])

\* ".*$" from position i of the path: a run of characters other than the
\* newline, up to the end of the path or to a newline that ends the path
DotStarEnd(path, i) ==
    \E k \in i..(Len(path) + 1) :
        /\ \A m \in i..(k - 1) : CharAt(path, m) # "\n"
        /\ k = Len(path) + 1 \/ (k = Len(path) /\ CharAt(path, k) = "\n")

\* re.match of "^" + re.escape(restricted).replace("\\*", ".*") + ".*$":
\* every character of the pattern is literal except '*', which becomes
\* ".*", a run of characters other than the newline; the path may go on
\* after the pattern's end, as far as ".*$" takes it
RECURSIVE StarPrefixFrom(_, _, _, _)
StarPrefixFrom(path, i, pat, j) ==
    IF j > Len(pat) THEN DotStarEnd(path, i)
    ELSE IF CharAt(pat, j) = "*"
         THEN \/ StarPrefixFrom(path, i, pat, j + 1)
              \/ /\ i <= Len(path)
                 /\ CharAt(path, i) # "\n"
                 /\ StarPrefixFrom(path, i + 1, pat, j)
    ELSE /\ i <= Len(path)
         /\ CharAt(path, i) = CharAt(pat, j)
         /\ StarPrefixFrom(path, i + 1, pat, j + 1)

\* a window that stops one position short of the last part of the path
WindowMatchButLast(path_parts, restricted_parts) ==
    \E i \in 0..(Len(path_parts) - Len(restricted_parts) - 1) :
        \A j \in 1..Len(restricted_parts) :
            fnmatch(path_parts[i + j], restricted_parts[j])

\* the sliding window of a relative folder restriction over the path's parts
WindowMatch(path_parts, restricted_parts) ==
    \E i \in 0..(Len(path_parts) - Len(restricted_parts)) :
        \A j \in 1..Len(restricted_parts) :
            fnmatch(path_parts[i + j], restricted_parts[j])

\* one folder restriction applied to a path, whose parts are path_parts
FolderRestricts(restricted, path, path_parts) ==
    IF isabs(restricted)
    THEN IF HasChar(restricted, "*")
         THEN StarPrefixFrom(path, 1, restricted, 1)
         ELSE startswith(path, restricted)
    ELSE WindowMatch(path_parts, split(restricted))

_is_restricted_path(path) ==
    LET path_parts == split(path)
        filename   == basename(path)
    IN  \/ \E i \in 1..Len(restricted_folders) :
               FolderRestricts(restricted_folders[i], path, path_parts)
        \/ \E i \in 1..Len(restricted_files) :
               fnmatch(filename, restricted_files[i])

\* checks that take a root folder itself for allowed
CheckPathTrustsRoots(abs_path) ==
    IF ~_is_in_root_folders(abs_path)
    THEN [error |-> "outside all root folders", path |-> abs_path]
    ELSE IF /\ \A i \in 1..Len(root_folders) : root_folders[i] # abs_path
            /\ _is_restricted_path(abs_path)
    THEN [error |-> "in a restricted area", path |-> abs_path]
    ELSE [error |-> "none", path |-> abs_path]

\* the two checks of _validate_path on the absolute path
CheckPath(abs_path) ==
    IF ~_is_in_root_folders(abs_path)
    THEN [error |-> "outside all root folders", path |-> abs_path]
    ELSE IF _is_restricted_path(abs_path)
    THEN [error |-> "in a restricted area", path |-> abs_path]
    ELSE [error |-> "none", path |-> abs_path]

\* the outcome of _validate_path: the absolute path, or the error raised
_validate_path(path) == CheckPath(abspath(normpath(path)))

(***************************************************************************)
(* Text codecs.  A decoder takes the bytes of a file and yields the text   *)
(* (a sequence of code points) or fails with UnicodeDecodeError.           *)
(***************************************************************************)
DecodeError == [ok |-> FALSE, text |-> <<>>]
Decoded(text) == [ok |-> TRUE, text |-> text]

IsCont(b, i) == i <= Len(b) /\ b[i] \in 128..191

RECURSIVE Utf8From(_, _, _)
Utf8From(b, i, acc) ==
    IF i > Len(b) THEN Decoded(acc)
    ELSE LET c == b[i] IN
         IF c < 128 THEN Utf8From(b, i + 1, Append(acc, c))
         ELSE IF c \in 194..223
         THEN IF IsCont(b, i + 1)
              THEN Utf8From(b, i + 2,
                            Append(acc, (c - 192) * 64 + (b[i + 1] - 128)))
              ELSE DecodeError
         ELSE IF c \in 224..239
         THEN IF /\ IsCont(b, i + 1) /\ IsCont(b, i + 2)
                 /\ (c = 224 => b[i + 1] >= 160)
                 /\ (c = 237 => b[i + 1] <= 159)
              THEN Utf8From(b, i + 3,
                            Append(acc, (c - 224) * 4096 + (b[i + 1] - 128) * 64
                                        + (b[i + 2] - 128)))
              ELSE DecodeError
         ELSE IF c \in 240..244
         THEN IF /\ IsCont(b, i + 1) /\ IsCont(b, i + 2) /\ IsCont(b, i + 3)
                 /\ (c = 240 => b[i + 1] >= 144)
                 /\ (c = 244 => b[i + 1] <= 143)
              THEN Utf8From(b, i + 4,
                            Append(acc, (c - 240) * 262144
                                        + (b[i + 1] - 128) * 4096
                                        + (b[i + 2] - 128) * 64
                                        + (b[i + 3] - 128)))
              ELSE DecodeError
         ELSE DecodeError

\* utf-8-sig: a leading byte order mark EF BB BF is dropped; a file that is
\* only the beginning of a byte order mark reads as empty text
utf_8_sig(b) ==
    IF b = <<239>> \/ b = <<239, 187>> THEN Decoded(<<>>)
    ELSE IF Len(b) >= 3 /\ SubSeq(b, 1, 3) = <<239, 187, 191>>
    THEN Utf8From(b, 4, <<>>)
    ELSE Utf8From(b, 1, <<>>)

Unit16(b, i, little) ==
    IF little THEN b[i] + 256 * b[i + 1] ELSE 256 * b[i] + b[i + 1]

RECURSIVE Utf16From(_, _, _, _)
Utf16From(b, i, acc, little) ==
    IF i > Len(b) THEN Decoded(acc)
    ELSE IF i = Len(b) THEN DecodeError
    ELSE LET u == Unit16(b, i, little) IN
         IF u \in 55296..56319
         THEN IF i + 3 <= Len(b) /\ Unit16(b, i + 2, little) \in 56320..57343
              THEN Utf16From(b, i + 4,
                             Append(acc, 65536 + (u - 55296) * 1024
                                         + (Unit16(b, i + 2, little) - 56320)),
                             little)
              ELSE DecodeError
         ELSE IF u \in 56320..57343 THEN DecodeError
         ELSE Utf16From(b, i + 2, Append(acc, u), little)

\* the part of JIS X 0208 (row, column) that the bytes of the model reach
JISX0208 ==
    <<34, 34>> :> 9633 @@ <<34, 36>> :> 9651 @@ <<34, 41>> :> 12306
    @@ <<34, 105>> :> 8747 @@ <<36, 34>> :> 12354 @@ <<36, 36>> :> 12356
    @@ <<36, 41>> :> 12361 @@ <<36, 67>> :> 12387 @@ <<36, 105>> :> 12425
    @@ <<67, 34>> :> 20294 @@ <<67, 36>> :> 36784 @@ <<67, 41>> :> 36799
    @@ <<67, 67>> :> 37723 @@ <<67, 105>> :> 24544 @@ <<105, 34>> :> 34306
    @@ <<105, 36>> :> 34133 @@ <<105, 41>> :> 34186 @@ <<105, 67>> :> 34310
    @@ <<105, 105>> :> 34577

RECURSIVE EucJpFrom(_, _, _)
EucJpFrom(b, i, acc) ==
    IF i > Len(b) THEN Decoded(acc)
    ELSE LET c == b[i] IN
         IF c < 128 THEN EucJpFrom(b, i + 1, Append(acc, c))
         ELSE IF i + 1 <= Len(b) /\ c = 142 /\ b[i + 1] \in 161..223
         THEN EucJpFrom(b, i + 2, Append(acc, 65377 + (b[i + 1] - 161)))
         ELSE IF i + 1 <= Len(b)
                 /\ <<c - 128, b[i + 1] - 128>> \in DOMAIN JISX0208
         THEN EucJpFrom(b, i + 2,
                        Append(acc, JISX0208[<<c - 128, b[i + 1] - 128>>]))
         ELSE DecodeError

\* iso-2022-jp: 7-bit; ESC ( B selects ASCII, ESC ( J selects JIS-Roman and
\* ESC $ B (or ESC $ @) selects JIS X 0208, whose characters take two bytes.
\* The files of the model use ESC only to begin one of these designations.
JisRoman(c) == IF c = 92 THEN 165 ELSE IF c = 126 THEN 8254 ELSE c

RECURSIVE Iso2022From(_, _, _, _)
Iso2022From(b, i, acc, g0) ==
    IF i > Len(b) THEN Decoded(acc)
    ELSE LET c == b[i] IN
         IF c >= 128 THEN DecodeError
         ELSE IF c = 27
         THEN IF i + 1 > Len(b) THEN DecodeError
              ELSE IF b[i + 1] \in {36, 40}
              THEN IF i + 2 > Len(b) THEN DecodeError
                   ELSE IF b[i + 1] = 40 /\ b[i + 2] = 66
                   THEN Iso2022From(b, i + 3, acc, "ascii")
                   ELSE IF b[i + 1] = 40 /\ b[i + 2] = 74
                   THEN Iso2022From(b, i + 3, acc, "roman")
                   ELSE IF b[i + 1] = 36 /\ b[i + 2] \in {64, 66}
                   THEN Iso2022From(b, i + 3, acc, "kanji")
                   ELSE DecodeError
              ELSE Iso2022From(b, i + 1, Append(acc, c), g0)
         ELSE IF c < 32 THEN Iso2022From(b, i + 1, Append(acc, c), g0)
         ELSE IF g0 = "kanji"
         THEN IF i + 1 <= Len(b) /\ <<c, b[i + 1]>> \in DOMAIN JISX0208
              THEN Iso2022From(b, i + 2, Append(acc, JISX0208[<<c, b[i + 1]>>]),
                               g0)
              ELSE DecodeError
         ELSE IF g0 = "roman"
         THEN Iso2022From(b, i + 1, Append(acc, JisRoman(c)), g0)
         ELSE Iso2022From(b, i + 1, Append(acc, c), g0)

\* the encodings tried by the content search, in order
encodings == <<"utf-8-sig", "utf-8", "utf-16-le", "utf-16-be",
               "latin-1", "euc-jp", "iso-2022-jp">>

decode(b, encoding) ==
    CASE encoding = "utf-8-sig"   -> utf_8_sig(b)
      [] encoding = "utf-8"       -> Utf8From(b, 1, <<>>)
      [] encoding = "utf-16-le"   -> Utf16From(b, 1, <<>>, TRUE)
      [] encoding = "utf-16-be"   -> Utf16From(b, 1, <<>>, FALSE)
      \* latin-1 decodes every byte sequence
      [] encoding = "latin-1"     -> Decoded(b)
      [] encoding = "euc-jp"      -> EucJpFrom(b, 1, <<>>)
      [] encoding = "iso-2022-jp" -> Iso2022From(b, 1, <<>>, "ascii")

\* text mode with universal newlines: "\r\n" and "\r" are read as "\n"
RECURSIVE Newlines(_, _, _)
Newlines(t, i, acc) ==
    IF i > Len(t) THEN acc
    ELSE IF t[i] = 13
         THEN Newlines(t, IF i < Len(t) /\ t[i + 1] = 10 THEN i + 2 ELSE i + 1,
                       Append(acc, 10))
         ELSE Newlines(t, i + 1, Append(acc, t[i]))

Universal(d) ==
    IF d.ok THEN Decoded(Newlines(d.text, 1, <<>>)) ELSE DecodeError

\* f.read() of a file opened in text mode with the given encoding
read_text(b, encoding) == Universal(decode(b, encoding))

(***************************************************************************)
(* Content matching                                                        *)
(***************************************************************************)
\* a comparison that tells upper case from lower case
SameChar(c) == c

\* str.lower() on the code points of the model (ASCII and Latin-1 letters)
LowerChar(c) ==
    IF c \in 65..90 \/ (c \in 192..222 /\ c # 215) THEN c + 32 ELSE c

lower(text) == [i \in 1..Len(text) |-> LowerChar(text[i])]

\* needle in haystack
Contains(haystack, needle) ==
    \E i \in 0..(Len(haystack) - Len(needle)) :
        SubSeq(haystack, i + 1, i + Len(needle)) = needle

\* re.compile succeeds: the patterns of the model are literals, '.', a
\* leading '^', a trailing '$' and parentheses, which must balance
RECURSIVE ParenDepth(_, _, _)
ParenDepth(query, i, open) ==
    IF i > Len(query) THEN open
    ELSE IF query[i] = 40 THEN ParenDepth(query, i + 1, open + 1)
    ELSE IF query[i] = 41
         THEN IF open = 0 THEN -1 ELSE ParenDepth(query, i + 1, open - 1)
    ELSE ParenDepth(query, i + 1, open)

\* a compiler that takes every pattern
CompilesAnything(query) == TRUE

re_compiles(query) == ParenDepth(query, 1, 0) = 0

\* the pattern from position j matches the text at position i (IGNORECASE)
RECURSIVE ReMatchAt(_, _, _, _)
ReMatchAt(text, i, query, j) ==
    IF j > Len(query) THEN TRUE
    ELSE IF query[j] = 36 /\ j = Len(query)
         THEN i > Len(text) \/ (i = Len(text) /\ text[i] = 10)
    ELSE IF query[j] \in {40, 41} THEN ReMatchAt(text, i, query, j + 1)
    ELSE IF query[j] = 46
         THEN i <= Len(text) /\ text[i] # 10
              /\ ReMatchAt(text, i + 1, query, j + 1)
    ELSE /\ i <= Len(text)
         /\ LowerChar(text[i]) = LowerChar(query[j])
         /\ ReMatchAt(text, i + 1, query, j + 1)

re_search(text, query) ==
    IF query # <<>> /\ query[1] = 94
    THEN ReMatchAt(text, 1, query, 2)
    ELSE \E i \in 1..(Len(text) + 1) : ReMatchAt(text, i, query, 1)

_content_matches(content, query, is_regex) ==
    IF is_regex
    THEN IF re_compiles(query) THEN re_search(content, query) ELSE FALSE
    ELSE Contains(lower(content), lower(query))

(***************************************************************************)
(* The filesystem the server runs on                                       *)
(***************************************************************************)
\* number of sub-directories of the wide directory /var/w
WideDirs == 13

\* number of root folders of the manager whose roots are the wide directory
WideRoots == 8

\* 5 * 1024 * 1024, the size limit of the content search
MaxContentSize == 5 * 1024 * 1024

Dir(names)     == [kind |-> "dir", entries |-> names, target |-> "",
                   data |-> <<>>, pad |-> 0, readable |-> TRUE]
File(bytes)    == [kind |-> "file", entries |-> <<>>, target |-> "",
                   data |-> bytes, pad |-> 0, readable |-> TRUE]
Locked(bytes)  == [kind |-> "file", entries |-> <<>>, target |-> "",
                   data |-> bytes, pad |-> 0, readable |-> FALSE]
Link(to)       == [kind |-> "link", entries |-> <<>>, target |-> to,
                   data |-> <<>>, pad |-> 0, readable |-> TRUE]

\* a large file: the bytes, followed by a run of n space characters
Padded(bytes, n) ==
    [kind |-> "file", entries |-> <<>>, target |-> "", data |-> bytes,
     pad |-> n, readable |-> TRUE]

\* "needle", the content of most files and the query of most searches
b_needle == <<110, 101, 101, 100, 108, 101>>

FS ==
    "/" :> Dir(<<"data", "data2", "etc", "top.txt", "var">>)
    @@ "/top.txt" :> File(b_needle)
    @@ "/data" :> Dir(<<"a.txt", ".git", "sub", "node_modules", "u16.txt",
                        "lat.txt", "jp.txt", "iso.txt", "lock.txt",
                        "gone.txt", "link.txt", "dlink">>)
    @@ "/data/a.txt" :> File(<<104, 101, 108, 108, 111, 32, 119, 111, 114, 108,
                                 100>>)              \* "hello world"
    @@ "/data/.git" :> Dir(<<"config", "hooks">>)
    @@ "/data/.git/config" :> File(b_needle)
    @@ "/data/.git/hooks" :> Dir(<<"pre.txt">>)
    @@ "/data/.git/hooks/pre.txt" :> File(b_needle)
    @@ "/data/sub" :> Dir(<<"b.log", "c.txt", "deep">>)
    @@ "/data/sub/b.log" :> File(b_needle)
    @@ "/data/sub/c.txt" :> File(<<78, 69, 69, 68, 76, 69>>)     \* "NEEDLE"
    @@ "/data/sub/deep" :> Dir(<<"e.txt", "er">>)
    @@ "/data/sub/deep/e.txt" :> File(b_needle)
    @@ "/data/sub/deep/er" :> Dir(<<"f.txt">>)
    @@ "/data/sub/deep/er/f.txt" :> File(b_needle)
    @@ "/data/node_modules" :> Dir(<<"i.txt">>)
    @@ "/data/node_modules/i.txt" :> File(b_needle)
    \* "needle" in UTF-16 little endian, no byte order mark
    @@ "/data/u16.txt" :> File(<<110, 0, 101, 0, 101, 0, 100, 0, 108, 0, 101,
                                 0>>)
    \* "e-acute, space, needle" in Latin-1
    @@ "/data/lat.txt" :> File(<<233, 32>> \o b_needle)
    \* HIRAGANA LETTER A in EUC-JP and in ISO-2022-JP
    @@ "/data/jp.txt" :> File(<<164, 162>>)
    @@ "/data/iso.txt" :> File(<<27, 36, 66, 36, 34, 27, 40, 66>>)
    @@ "/data/lock.txt" :> Locked(b_needle)
    @@ "/data/gone.txt" :> Link("/data/removed.txt")
    @@ "/data/link.txt" :> Link("/etc/passwd")
    @@ "/data/dlink" :> Link("/etc")
    @@ "/data2" :> Dir(<<"big.txt", "max.txt", "x.txt", "X.PNG">>)
    \* "needle" and spaces: one byte more than the size limit
    @@ "/data2/big.txt" :> Padded(b_needle, MaxContentSize + 1 - 6)
    \* "needle" and spaces: exactly the size limit
    @@ "/data2/max.txt" :> Padded(b_needle, MaxContentSize - 6)
    @@ "/data2/x.txt" :> File(b_needle)
    \* a file with the extension of an image that holds the text "needle"
    @@ "/data2/X.PNG" :> File(b_needle)
    @@ "/etc" :> Dir(<<"passwd">>)
    @@ "/etc/passwd" :> File(b_needle)
    @@ "/var" :> Dir(<<"w">>)
    @@ "/var/w" :> Dir([i \in 1..WideDirs |-> "n" \o ToString(i)])
    @@ [p \in {"/var/w/n" \o ToString(i) : i \in 1..WideDirs} |-> Dir(<<>>)]

\* "hello world"
b_hello_world == <<104, 101, 108, 108, 111, 32, 119, 111, 114, 108, 100>>

\* a root folder /data that holds a.txt, sub/b.log and .git/config
SmallFS ==
    "/" :> Dir(<<"data">>)
    @@ "/data" :> Dir(<<"a.txt", "sub", ".git">>)
    @@ "/data/a.txt" :> File(b_hello_world)
    @@ "/data/sub" :> Dir(<<"b.log">>)
    @@ "/data/sub/b.log" :> File(b_hello_world)
    @@ "/data/.git" :> Dir(<<"config">>)
    @@ "/data/.git/config" :> File(b_hello_world)

\* the filesystem is part of the state: no operation of the manager writes it
VARIABLE fs

\* os.path.getsize
getsize(real) == Len(fs[real].data) + fs[real].pad

\* The longest run of trailing spaces a read keeps apart: a longer run is
\* cut to this length, its parity kept.  No query of the model is longer,
\* in bytes of any encoding, so no match and no decoding depends on the cut.
PadSeen == 16

Spaces(n) == [i \in 1..n |-> 32]

Shown(pad) ==
    IF pad <= PadSeen THEN pad ELSE PadSeen + ((pad - PadSeen) % 2)

\* the bytes a read of the file yields
Content(real) == fs[real].data \o Spaces(Shown(fs[real].pad))

\* the value that stands for "no such file or directory"
NoPath == ""

Parts(path) == SelectSeq(split(path), LAMBDA c : c # "")

UpTo(path, k) ==
    IF k <= 1 THEN SubSeq(path, 1, k) ELSE SubSeq(path, 1, k - 1)

dirname(path) == UpTo(path, LastIndex(path, sep))

\* the object an absolute path names once every symbolic link on the way is
\* followed (what open, stat and isfile act on)
RECURSIVE Resolve(_, _, _)
RECURSIVE ResolveAt(_, _, _)
RECURSIVE Follow(_, _, _)
Resolve(cur, comps, fuel) ==
    IF comps = <<>> THEN cur
    ELSE ResolveAt(join(cur, Head(comps)), Tail(comps), fuel)

ResolveAt(cand, rest, fuel) ==
    IF cand \notin DOMAIN fs THEN NoPath
    ELSE IF fs[cand].kind = "link"
    THEN IF fuel = 0 THEN NoPath
         ELSE Follow(Resolve("/", Parts(fs[cand].target), fuel - 1), rest, fuel)
    ELSE IF rest # <<>> /\ fs[cand].kind # "dir" THEN NoPath
    ELSE Resolve(cand, rest, fuel)

Follow(to, rest, fuel) ==
    IF to = NoPath THEN NoPath ELSE Resolve(to, rest, fuel)

realpath(path) == Resolve("/", Parts(path), 4)

IsKind(real, kind) == real # NoPath /\ fs[real].kind = kind

isdir(path)  == IsKind(realpath(path), "dir")
isfile(path) == IsKind(realpath(path), "file")

\* lstat: the entry itself is a symbolic link
IsLinkAt(entry) == entry \in DOMAIN fs /\ fs[entry].kind = "link"

IsLinkIn(parent, name) == parent # NoPath /\ IsLinkAt(join(parent, name))

islink(path) == IsLinkIn(realpath(dirname(path)), basename(path))

Reverse(s) == [i \in 1..Len(s) |-> s[Len(s) + 1 - i]]

(***************************************************************************)
(* The environment and the call in progress                                *)
(***************************************************************************)
VARIABLES
    scan_order,     \* the order in which the OS returns directory entries
    ctor,           \* the arguments the constructor was called with
    pc,             \* "new" (no manager yet), "failed" (constructor raised),
                    \* "exited" (main has left before it made a server),
                    \* "idle", "searching" (inside search_files_by_content),
                    \* "done" (a call has ended)
    call,           \* the operation called and its arguments
    result,         \* the value returned; <<>> until then
    raised,         \* the error the call ended with, "none" otherwise
    opened,         \* the files (real paths) whose content the call read
    statted,        \* the objects (real paths) the call asked the OS about
    visited,        \* the directories the call's walk listed, in order
    progress,       \* the percent values passed to progress_callback, in order
    attempts,       \* per searched file, the encodings tried and their outcome
    paths,          \* search_files_by_content: the paths still to search
    validated_path, \* search_files_by_content: the path being walked
    stack,          \* search_files_by_content: os.walk's pending directories
    dirs_processed, \* search_files_by_content: its directory counter
    other,          \* the latest call of a second caller and its outcome
    reply           \* what the tool of the server handed to its client

manager == <<root_folders, restricted_folders, restricted_files>>

\* a call that takes the paths it goes through out of self.root_folders
RootsConsumed ==
    /\ root_folders' = SubSeq(root_folders, 2, Len(root_folders))
    /\ UNCHANGED <<restricted_folders, restricted_files>>

\* no method assigns to a field of the manager or changes the list it holds
FieldsKept == UNCHANGED manager
vars == <<root_folders, restricted_folders, restricted_files, fs, scan_order,
          ctor, pc, other, reply,
          call, result, raised, opened, statted, visited, progress, attempts,
          paths, validated_path, stack, dirs_processed>>

None == [given |-> FALSE, value |-> ""]
Some(p) == [given |-> TRUE, value |-> p]

(***************************************************************************)
(* os.walk                                                                 *)
(***************************************************************************)
\* os.scandir; os.walk swallows the error of a directory it cannot list
Listing(real) ==
    IF ~IsKind(real, "dir") THEN <<>>
    ELSE IF scan_order = "reverse" THEN Reverse(fs[real].entries)
    ELSE fs[real].entries

scandir(dir) == Listing(realpath(dir))

\* the (dirs, files) lists os.walk yields for a directory
walk_dirs(root)  == SelectSeq(scandir(root), LAMBDA n : isdir(join(root, n)))
walk_files(root) == SelectSeq(scandir(root), LAMBDA n : ~isdir(join(root, n)))

FullPaths(root, files) == [i \in 1..Len(files) |-> join(root, files[i])]

\* the sub-directories os.walk descends into: those left in dirs that are
\* not symbolic links
Descend(root, dirs) ==
    FullPaths(root, SelectSeq(dirs, LAMBDA d : ~islink(join(root, d))))

\* root[len(validated_path):].count(os.sep)
current_depth(validated, root) ==
    CountChar(SubSeq(root, Len(validated) + 1, Len(root)), sep)

\* a walk that descends into every sub-directory
KeepsAllDirs(root, dirs) == dirs

prune_restricted(root, dirs) ==
    SelectSeq(dirs, LAMBDA d : ~_is_restricted_path(join(root, d)))

(***************************************************************************)
(* list_files                                                              *)
(***************************************************************************)
NoWalk == [files |-> <<>>, visited |-> <<>>]

\* the yield of a directory followed by the yield of what is walked after it
Both(first, rest) ==
    [files |-> first.files \o rest.files,
     visited |-> first.visited \o rest.visited]

\* the outcome of a call that walks: no file is opened by it
Outcome(raised_, result_, visited_) ==
    [raised |-> raised_, result |-> result_, opened |-> {}, statted |-> {},
     visited |-> visited_]

Walked(acc, w) ==
    Outcome("none", acc.result \o w.files, acc.visited \o w.visited)

RECURSIVE ListWalk(_, _, _)
RECURSIVE ListPruned(_, _, _, _)
RECURSIVE ListWalkEach(_, _, _)
\* one round of the loop over os.walk: the restricted sub-directories are
\* taken out of dirs first, then the depth is tested
ListWalk(validated, root, depth) ==
    ListPruned(validated, root, depth,
               prune_restricted(root, walk_dirs(root)))

\* the round once dirs holds the sub-directories kept
ListPruned(validated, root, depth, kept) ==
    IF current_depth(validated, root) >= depth
    THEN [files |-> <<>>, visited |-> <<root>>]
    ELSE Both([files |-> SelectSeq(FullPaths(root, walk_files(root)),
                                   LAMBDA f : ~_is_restricted_path(f)),
               visited |-> <<root>>],
              ListWalkEach(validated, Descend(root, kept), depth))

ListWalkEach(validated, subdirs, depth) ==
    IF subdirs = <<>> THEN NoWalk
    ELSE Both(ListWalk(validated, Head(subdirs), depth),
              ListWalkEach(validated, Tail(subdirs), depth))

\* the loop over the paths; a validation error ends the call
RECURSIVE ListPaths(_, _, _)
RECURSIVE ListPath(_, _, _, _)
ListPaths(todo, depth, acc) ==
    IF todo = <<>> THEN acc
    ELSE ListPath(_validate_path(Head(todo)), Tail(todo), depth, acc)

\* a loop over the paths whose validation error lets the files collected so
\* far through
ListPathKeepsCollected(v, rest, depth, acc) ==
    IF v.error # "none" THEN Outcome(v.error, acc.result, acc.visited)
    ELSE ListPaths(rest, depth,
                   Walked(acc, IF isdir(v.path)
                               THEN ListWalk(v.path, v.path, depth)
                               ELSE NoWalk))

ListPath(v, rest, depth, acc) ==
    IF v.error # "none" THEN Outcome(v.error, <<>>, acc.visited)
    ELSE ListPaths(rest, depth,
                   Walked(acc, IF isdir(v.path)
                               THEN ListWalk(v.path, v.path, depth)
                               ELSE NoWalk))

PathsOf(path) == IF path.given THEN <<path.value>> ELSE root_folders

list_files(path, depth) ==
    ListPaths(PathsOf(path), depth, Outcome("none", <<>>, <<>>))

(***************************************************************************)
(* search_files_by_name                                                    *)
(***************************************************************************)
RECURSIVE NameWalk(_, _, _, _)
RECURSIVE NameWalkEach(_, _, _, _)
\* a walk that stops one level further down: its test is current_depth >
\* max_depth
NameWalkOneDeeper(pattern, validated, root, max_depth) ==
    IF current_depth(validated, root) > max_depth
    THEN [files |-> <<>>, visited |-> <<root>>]
    ELSE Both([files |->
                   FullPaths(root,
                       SelectSeq(walk_files(root),
                                 LAMBDA f :
                                     /\ ~_is_restricted_path(join(root, f))
                                     /\ fnmatch(f, pattern))),
               visited |-> <<root>>],
              NameWalkEach(pattern, validated,
                           Descend(root,
                                   prune_restricted(root, walk_dirs(root))),
                           max_depth))

\* one round of the loop over os.walk: the depth is tested first, then the
\* restricted sub-directories are taken out of dirs
NameWalk(pattern, validated, root, max_depth) ==
    IF current_depth(validated, root) >= max_depth
    THEN [files |-> <<>>, visited |-> <<root>>]
    ELSE Both([files |->
                   FullPaths(root,
                       SelectSeq(walk_files(root),
                                 LAMBDA f :
                                     /\ ~_is_restricted_path(join(root, f))
                                     /\ fnmatch(f, pattern))),
               visited |-> <<root>>],
              NameWalkEach(pattern, validated,
                           Descend(root,
                                   prune_restricted(root, walk_dirs(root))),
                           max_depth))

NameWalkEach(pattern, validated, subdirs, max_depth) ==
    IF subdirs = <<>> THEN NoWalk
    ELSE Both(NameWalk(pattern, validated, Head(subdirs), max_depth),
              NameWalkEach(pattern, validated, Tail(subdirs), max_depth))

RECURSIVE NamePaths(_, _, _, _)
RECURSIVE NamePath(_, _, _, _, _)
NamePaths(pattern, todo, max_depth, acc) ==
    IF todo = <<>> THEN acc
    ELSE NamePath(pattern, _validate_path(Head(todo)), Tail(todo), max_depth,
                  acc)

NamePath(pattern, v, rest, max_depth, acc) ==
    IF v.error # "none" THEN Outcome(v.error, <<>>, acc.visited)
    ELSE NamePaths(pattern, rest, max_depth,
                   Walked(acc, IF isdir(v.path)
                               THEN NameWalk(pattern, v.path, v.path, max_depth)
                               ELSE NoWalk))

search_files_by_name(pattern, path, max_depth) ==
    NamePaths(pattern, PathsOf(path), max_depth, Outcome("none", <<>>, <<>>))

(***************************************************************************)
(* read_file, get_file_info, get_file_mimetype                             *)
(***************************************************************************)
AsSet(real) == IF real = NoPath THEN {} ELSE {real}

\* the object behind a path, as a set: empty when the path names nothing
Real(path) == AsSet(realpath(path))

\* the outcome of a call on one file
FileOutcome(raised_, result_, opened_, statted_) ==
    [raised |-> raised_, result |-> result_, opened |-> opened_,
     statted |-> statted_, visited |-> <<>>]

ReadText(real, text) ==
    IF ~text.ok
    THEN FileOutcome("UnicodeDecodeError", <<>>, {real}, {real})
    ELSE FileOutcome("none", text.text, {real}, {real})

ReadReal(real) ==
    IF ~IsKind(real, "file")
    THEN FileOutcome("is not a file", <<>>, {}, AsSet(real))
    ELSE IF ~fs[real].readable
    THEN FileOutcome("PermissionError", <<>>, {}, {real})
    ELSE ReadText(real, read_text(Content(real), "utf-8"))

\* a read that tests for a regular file before it looks at the validation
ReadTestsFileFirst(v) ==
    IF ~isfile(v.path)
    THEN FileOutcome("is not a file", <<>>, {}, Real(v.path))
    ELSE IF v.error # "none" THEN FileOutcome(v.error, <<>>, {}, Real(v.path))
    ELSE ReadReal(realpath(v.path))

ReadValidated(v) ==
    IF v.error # "none" THEN FileOutcome(v.error, <<>>, {}, {})
    ELSE ReadReal(realpath(v.path))

read_file(path) == ReadValidated(_validate_path(path))

InfoReal(abs_path, real) ==
    IF ~IsKind(real, "file")
    THEN FileOutcome("is not a file", <<>>, {}, AsSet(real))
    ELSE FileOutcome("none",
                     [path |-> abs_path, size |-> getsize(real)],
                     {}, {real})

InfoValidated(v) ==
    IF v.error # "none" THEN FileOutcome(v.error, <<>>, {}, {})
    ELSE InfoReal(v.path, realpath(v.path))

\* the time stamps of the stat result are left out
get_file_info(path) == InfoValidated(_validate_path(path))

LowerLetter(c) ==
    IF HasChar("ABCDEFGHIJKLMNOPQRSTUVWXYZ", c)
    THEN CharAt("abcdefghijklmnopqrstuvwxyz",
                CHOOSE i \in 1..26 :
                    CharAt("ABCDEFGHIJKLMNOPQRSTUVWXYZ", i) = c)
    ELSE c

RECURSIVE LowerStr(_)
LowerStr(s) ==
    IF s = "" THEN ""
    ELSE LowerLetter(CharAt(s, 1)) \o LowerStr(SubSeq(s, 2, Len(s)))

ExtAt(name, dot) ==
    IF dot > 0 /\ \E i \in 1..(dot - 1) : CharAt(name, i) # "."
    THEN SubSeq(name, dot, Len(name)) ELSE ""

ExtOf(name) == ExtAt(name, LastIndex(name, "."))

\* os.path.splitext(path)[1]
splitext_ext(path) == ExtOf(basename(path))

TypeOf(ext) ==
    CASE ext = ".txt" -> "text/plain"
      [] ext = ".png" -> "image/png"
      [] OTHER -> "None"

\* mimetypes.guess_type for the extensions of the model
guess_type(path) == TypeOf(LowerStr(splitext_ext(path)))

OrOctetStream(mime_type) ==
    IF mime_type = "None" THEN "application/octet-stream" ELSE mime_type

MimeValidated(v) ==
    IF v.error # "none" THEN FileOutcome(v.error, <<>>, {}, {})
    ELSE IF ~isfile(v.path)
    THEN FileOutcome("is not a file", <<>>, {}, Real(v.path))
    ELSE FileOutcome("none", OrOctetStream(guess_type(v.path)), {},
                     Real(v.path))

get_file_mimetype(path) == MimeValidated(_validate_path(path))

(***************************************************************************)
(* search_files_by_content                                                 *)
(***************************************************************************)
binary_extensions ==
    {".bin", ".exe", ".dll", ".so", ".dylib", ".obj", ".o", ".pyc", ".pyd",
     ".jpg", ".jpeg", ".png", ".gif", ".bmp", ".tiff", ".ico", ".webp",
     ".mp3", ".mp4", ".avi", ".mov", ".flv", ".wmv", ".wma", ".ogg", ".wav",
     ".zip", ".tar", ".gz", ".bz2", ".7z", ".rar", ".iso", ".pdf", ".doc",
     ".docx", ".xls", ".xlsx", ".ppt", ".pptx", ".db", ".sqlite", ".mdb",
     ".accdb"}

\* a test of the extension as it is written, upper case apart from lower
BinaryByExactExtension(path) == splitext_ext(path) \in binary_extensions

_is_likely_binary(path) == LowerStr(splitext_ext(path)) \in binary_extensions

total_dirs == 100

\* one pass of the encoding loop's body for a file that exists
TextOutcome(content, query, is_regex) ==
    IF ~content.ok THEN "decode_error"
    ELSE IF _content_matches(content.text, query, is_regex) THEN "match"
    ELSE "no_match"

TryReal(real, encoding, query, is_regex) ==
    IF ~fs[real].readable \/ fs[real].kind # "file" THEN "io_error"
    ELSE TextOutcome(read_text(Content(real), encoding), query, is_regex)

TryEncoding(full_path, encoding, query, is_regex) ==
    TryReal(realpath(full_path), encoding, query, is_regex)

\* a loop that goes on to the next encoding after a decode error only
TriesNextOnDecodeError(outcome) == outcome = "decode_error"

\* whether the encoding loop goes on to the next encoding after an outcome
TriesNext(outcome) == outcome \in {"decode_error", "no_match"}

RECURSIVE TryEncodings(_, _, _, _)
RECURSIVE Tried(_, _, _, _, _)
TryEncodings(full_path, k, query, is_regex) ==
    IF k > Len(encodings) THEN <<>>
    ELSE Tried(full_path, k,
               TryEncoding(full_path, encodings[k], query, is_regex),
               query, is_regex)

Tried(full_path, k, outcome, query, is_regex) ==
    <<[encoding |-> encodings[k], outcome |-> outcome]>>
    \o (IF TriesNext(outcome)
        THEN TryEncodings(full_path, k + 1, query, is_regex)
        ELSE <<>>)

\* a size test that also leaves out a file of exactly the limit
SizeOfAtLeast(real) ==
    IF real = NoPath THEN "error"
    ELSE IF getsize(real) >= MaxContentSize THEN "too_large"
    ELSE "ok"

\* what the size test does with a file: "error" stands for OSError
SizeOf(real) ==
    IF real = NoPath THEN "error"
    ELSE IF getsize(real) > MaxContentSize THEN "too_large"
    ELSE "ok"

SizeCheck(full_path) == SizeOf(realpath(full_path))

Searched(skip_, tried_, statted_) ==
    [skip |-> skip_, tried |-> tried_, statted |-> statted_]

Sized(full_path, size, query, is_regex) ==
    IF size # "ok" THEN Searched(size, <<>>, Real(full_path))
    ELSE IF _is_likely_binary(full_path)
    THEN Searched("binary", <<>>, Real(full_path))
    ELSE Searched("no", TryEncodings(full_path, 1, query, is_regex),
                  Real(full_path))

\* the body of the loop over the files of one directory, for one file
SearchFile(full_path, query, is_regex) ==
    IF _is_restricted_path(full_path) THEN Searched("restricted", <<>>, {})
    ELSE Sized(full_path, SizeCheck(full_path), query, is_regex)

IsHit(s) == s.tried # <<>> /\ s.tried[Len(s.tried)].outcome = "match"

\* the text of the file was read under at least one encoding
WasRead(s) ==
    \E i \in 1..Len(s.tried) : s.tried[i].outcome \in {"match", "no_match"}

AtMost85(p) == IF p < 85 THEN p ELSE 85

\* the progress formula without its upper limit
ProgressUncapped(n) == ((n * 80) \div total_dirs) + 5

\* min(int((dirs_processed / total_dirs) * 80) + 5, 85)
ProgressValue(n) == AtMost85(((n * 80) \div total_dirs) + 5)

ReportsProgress(n) == n % 5 = 0

(***************************************************************************)
(* Construction                                                            *)
(***************************************************************************)
\* the root_folders argument: a single string or a list of strings
Str(s)  == [is_str |-> TRUE, str |-> s, list |-> <<>>]
List(l) == [is_str |-> FALSE, str |-> "", list |-> l]

\* isinstance(root_folders, str): a single string stands for a list of one
AsList(arg) == IF arg.is_str THEN <<arg.str>> ELSE arg.list

_initialize_root_folders(folders) ==
    [i \in 1..Len(folders) |-> abspath(normpath(folders[i]))]

\* a test that takes whatever exists for a root
RootsPresent(folders) ==
    \A i \in 1..Len(folders) :
        realpath(_initialize_root_folders(folders)[i]) # NoPath

RootsExist(folders) ==
    \A i \in 1..Len(folders) : isdir(_initialize_root_folders(folders)[i])

Args(roots, r_folders, r_files, ignore_patterns, include_defaults) ==
    [root_folders |-> roots, restricted_folders |-> r_folders,
     restricted_files |-> r_files, ignore_patterns |-> ignore_patterns,
     include_defaults |-> include_defaults]

\* the constructor calls of the model
CtorArgs ==
    {Args(List(<<"/data">>), <<>>, <<>>, <<>>, TRUE),
     Args(List(<<"/">>), <<>>, <<>>, <<>>, TRUE),
     Args(List(<<"/data/", "/data2">>), <<>>, <<>>, <<>>, TRUE),
     Args(List(<<"/data2", "/etc">>), <<>>, <<>>, <<>>, TRUE),
     \* a root that the built-in pattern node_modules restricts
     Args(List(<<"/data/node_modules">>), <<>>, <<>>, <<>>, TRUE),
     Args(List(<<"/data">>), <<>>, <<>>, <<>>, FALSE),
     \* restrictions of the caller's own, without the defaults
     Args(List(<<"/data">>), <<"/data/sub/", "node_modules">>, <<"*.txt">>,
          << <<"*.log", "build", ".git*">> >>, FALSE),
     \* folder restrictions of several segments and with wildcards, and
     \* patterns for the categorization
     Args(List(<<"/data">>),
          <<"sub/d*", "data/c.txt", "/data/.g*/hooks/">>, <<"Makefile">>,
          << <<"node_modules/", "docs.d/", "dist", "*.log">>,
             <<"a.b/c", "x/y.z">> >>, FALSE),
     \* a single string, relative to the working directory
     Args(Str("sub"), <<>>, <<>>, <<>>, TRUE),
     \* entries that are not normalized; the second is a link to a directory
     Args(List(<<"/data/../data2//", "/data/dlink">>), <<>>, <<>>, <<>>, TRUE),
     Args(List(<<>>), <<>>, <<>>, <<>>, TRUE),
     \* entries that are missing, a file, a link to nothing
     Args(List(<<"/data", "/nowhere">>), <<>>, <<>>, <<>>, TRUE),
     Args(List(<<"/data/a.txt">>), <<>>, <<>>, <<>>, TRUE),
     Args(Str("/data/gone.txt"), <<>>, <<>>, <<>>, TRUE),
     \* roots that hold more than total_dirs directories
     Args(List([i \in 1..WideRoots |-> "/var/w"]), <<>>, <<>>, <<>>, FALSE)}

\* the value of other while no second caller has called
NoOther == [call |-> [op |-> "none"], outcome |-> Outcome("none", <<>>, <<>>)]

\* the value of ctor before the constructor is called
NotConstructed == Args(List(<<>>), <<>>, <<>>, <<>>, FALSE)

\* the filesystems the server is started on, each with the orders in which
\* the OS lists its directories
Environments ==
    {[fs |-> FS, scan_order |-> "forward"],
     [fs |-> SmallFS, scan_order |-> "forward"],
     [fs |-> SmallFS, scan_order |-> "reverse"]}

(***************************************************************************)
(* The arguments of the calls                                              *)
(***************************************************************************)
MaxDepthArg == 2

\* the default of max_depth in search_files_by_name
DefaultNameDepth == 5

\* the default of max_depth in search_files_by_content
DefaultContentDepth == 3

ListDepths    == 0..MaxDepthArg
NameDepths    == (0..MaxDepthArg) \cup {DefaultNameDepth}
ContentDepths == (0..MaxDepthArg) \cup {DefaultContentDepth}

PathInputs ==
    {"/data", "/data/a.txt", "/data2/x.txt", "/data/../data2/x.txt",
     "/data/.git/config", "/data/.git/hooks", "/data/sub", "/data/sub/b.log",
     "/data/link.txt", "/data/dlink/passwd", "/data/dlink", "/etc/passwd",
     "/", "/var/w", "sub/c.txt", "/data/node_modules/i.txt", "/data/lat.txt",
     "/data/lock.txt", "/data/x.pyc", "/data/secrets.pem", "/data2",
     "/top.txt", "/data/gone.txt", "/data2/y.log", "/data/subs/x",
     "/data/node_modules", "/data/sub/deep/e.txt", "/data/sub/c.txt",
     "/data/.git/hooks/pre.txt", "/data/.git/hooks/a\nb"}

WalkInputs ==
    {None} \cup {Some(p) : p \in {"/data", "/", "/data/sub",
                                  "/data/.git/hooks", "/data/dlink", "/etc",
                                  "/data/../data2", "/data/a.txt"}}

PatternInputs == {"*.txt", "*.log", "?.txt"}

\* "(needle", which is no regular expression: its parenthesis is not closed
b_unbalanced == <<40>> \o b_needle

\* "Edle"
b_Edle == <<69, 100, 108, 101>>

\* "world"
b_world == <<119, 111, 114, 108, 100>>

QueryInputs ==
    {[query |-> b_needle, is_regex |-> FALSE],
     \* HIRAGANA LETTER A
     [query |-> <<12354>>, is_regex |-> FALSE],
     \* the regular expression "n.edle"
     [query |-> <<110, 46, 101, 100, 108, 101>>, is_regex |-> TRUE],
     [query |-> b_unbalanced, is_regex |-> TRUE],
     [query |-> b_world, is_regex |-> FALSE],
     \* "NEEDLE"
     [query |-> <<78, 69, 69, 68, 76, 69>>, is_regex |-> FALSE],
     \* the regular expression "Edle"
     [query |-> b_Edle, is_regex |-> TRUE]}

SearchPaths ==
    {None} \cup {Some(p) : p \in {"/data", "/", "/data/sub", "/data/dlink",
                                  "/etc"}}

\* the content searches of the model: every query without a progress
\* callback, and the search for "needle" with one
SearchInputs ==
    [q : QueryInputs, path : SearchPaths, max_depth : ContentDepths,
     progress_callback : {FALSE}]
    \cup [q : {[query |-> b_needle, is_regex |-> FALSE]}, path : SearchPaths,
          max_depth : ContentDepths, progress_callback : {TRUE}]

(***************************************************************************)
(* The tools of the server (src/file_server/server.py): each one calls the *)
(* manager inside try ... except Exception and returns a value             *)
(***************************************************************************)
ListTools == {"list_files", "search_files_by_name", "search_files_by_content"}

\* the absolute form of the first of the paths that _validate_path refuses
RECURSIVE FirstRefused(_)
FirstRefused(todo) ==
    IF todo = <<>> THEN ""
    ELSE IF _validate_path(Head(todo)).error # "none"
         THEN _validate_path(Head(todo)).path
         ELSE FirstRefused(Tail(todo))

\* the path the error of a call is about
ErrorPath(c) ==
    IF c.op \in ListTools THEN FirstRefused(PathsOf(c.path))
    ELSE abspath(normpath(c.path.value))

\* str(e): the message of the error, which the code builds around the path
\* (the position and the byte of a decode error are left out)
str_e(kind, path) ==
    CASE kind = "outside all root folders" ->
             "Path " \o path \o " is outside all root folders"
      [] kind = "in a restricted area" ->
             "Path " \o path \o " is in a restricted area"
      [] kind = "is not a file" -> path \o " is not a file"
      [] kind = "PermissionError" ->
             "[Errno 13] Permission denied: '" \o path \o "'"
      [] kind = "UnicodeDecodeError" -> "'utf-8' codec can't decode byte"

\* the value a tool returns from its except clause
error_value(op, msg) ==
    CASE op \in ListTools -> <<"Error: " \o msg>>
      [] op \in {"read_file", "get_file_info"} ->
             [success |-> FALSE, error |-> msg]
      [] op = "get_file_mimetype" ->
             [success |-> FALSE, error |-> "Error: " \o msg]

\* what became of a tool call: the value returned, or the error let through
Returned(value)  == [propagated |-> "none", value |-> value]
Propagated(kind) == [propagated |-> kind, value |-> <<>>]

\* the value of reply while no tool call has ended
NoReply == [propagated |-> "none", value |-> <<>>]

\* an except clause that names ValueError: UnicodeDecodeError is one,
\* PermissionError is not
CaughtAsValueError(kind) == kind # "PermissionError"

\* except Exception: every error the manager raises is an Exception
Caught(kind) ==
    kind \in {"outside all root folders", "in a restricted area",
              "is not a file", "PermissionError", "UnicodeDecodeError"}

\* the except clause of a tool, on an error of the manager
OnError(op, kind, msg) ==
    IF Caught(kind) THEN Returned(error_value(op, msg)) ELSE Propagated(kind)

\* the try statement of a tool around the call c of the manager, which
\* ended with the outcome (raised_, result_)
Tool(c, raised_, result_) ==
    IF raised_ = "none" THEN Returned(result_)
    ELSE OnError(c.op, raised_, str_e(raised_, ErrorPath(c)))

\* the calls of the manager a tool makes: the name search with the default
\* depth, the content search with a progress callback
ViaTool(c) ==
    /\ c.op = "search_files_by_name" => c.depth = DefaultNameDepth
    /\ c.op = "search_files_by_content" => c.progress_callback

\* the reply to a call that has ended, when a tool made it
Reply(c, raised_, result_) ==
    IF ViaTool(c) THEN Tool(c, raised_, result_) ELSE NoReply

Init ==
    /\ \E e \in Environments : fs = e.fs /\ scan_order = e.scan_order
    /\ ctor = NotConstructed
    /\ other = NoOther
    /\ reply = NoReply
    /\ root_folders = <<>>
    /\ restricted_folders = <<>>
    /\ restricted_files = <<>>
    /\ pc = "new"
    /\ call = [op |-> "none"]
    /\ result = <<>>
    /\ raised = "none"
    /\ opened = {}
    /\ statted = {}
    /\ visited = <<>>
    /\ progress = <<>>
    /\ attempts = <<>>
    /\ paths = <<>>
    /\ validated_path = ""
    /\ stack = <<>>
    /\ dirs_processed = 0

\* __init__ on the list of root folders: the roots first, then the
\* restrictions; a root that is no directory ends it with ValueError
Initialize(a, folders) ==
    IF ~RootsExist(folders)
    THEN /\ raised' = "does not exist"
         /\ pc' = "failed"
         /\ UNCHANGED manager
    ELSE /\ root_folders' = _initialize_root_folders(folders)
         /\ restricted_folders' =
                _initialize_restrictions(a.restricted_folders,
                    a.restricted_files, a.ignore_patterns,
                    a.include_defaults).folder
         /\ restricted_files' =
                _initialize_restrictions(a.restricted_folders,
                    a.restricted_files, a.ignore_patterns,
                    a.include_defaults).file
         /\ pc' = "idle"
         /\ UNCHANGED raised

\* FileManager(...)
Construct ==
    /\ pc = "new"
    /\ \E a \in CtorArgs :
          /\ ctor' = a
          /\ Initialize(a, AsList(a.root_folders))
    /\ UNCHANGED <<fs, scan_order, other, reply, call, result, opened, statted,
                   visited, progress, attempts, paths, validated_path, stack,
                   dirs_processed>>

(***************************************************************************)
(* The start-up of the server (src/file_server/server.py, main)            *)
(***************************************************************************)
\* os.path.expanduser("~"): the home directory of the user
expanduser_home == "/data"

\* str.split(";"): the pieces between semicolons, empty pieces kept
RECURSIVE SplitSemicolons(_, _, _)
SplitSemicolons(s, start, i) ==
    IF i > Len(s) THEN <<SubSeq(s, start, Len(s))>>
    ELSE IF CharAt(s, i) = ";"
         THEN <<SubSeq(s, start, i - 1)>> \o SplitSemicolons(s, i + 1, i + 1)
         ELSE SplitSemicolons(s, start, i + 1)

\* os.environ.get("MCP_ROOT_FOLDERS", "").split(";")
EnvRoots(env) == SplitSemicolons(IF env.given THEN env.value ELSE "", 1, 1)

\* args.roots: None without --roots, the list of its values otherwise;
\* both None and the empty list are false
NoRoots == [given |-> FALSE, list |-> <<>>]
Roots(l) == [given |-> TRUE, list |-> l]

\* a or b on lists: a unless it is empty (or None)
Or(a, b) == IF a # <<>> THEN a ELSE b

\* args.roots or os.environ.get(...).split(";") or [expanduser("~")],
\* without the entries that are empty
ConfiguredRoots(roots, env) ==
    SelectSeq(Or(Or(roots.list, EnvRoots(env)), <<expanduser_home>>),
              LAMBDA path : path # "")

\* os.path.exists(path) and os.path.isdir(path), on the path as written
IsDirectory(path) == isdir(join(getcwd, path))

valid_paths(folders)   == SelectSeq(folders, IsDirectory)
invalid_paths(folders) == SelectSeq(folders, LAMBDA path : ~IsDirectory(path))

\* FileMCP(root_folders=valid_paths): the manager with the default
\* restrictions
FileMCP(folders) == Args(List(folders), <<>>, <<>>, <<>>, TRUE)

\* main once root_folders is known: sys.exit(1) when paths were given and
\* none of them is a directory, the server otherwise
Start(folders) ==
    IF invalid_paths(folders) # <<>> /\ valid_paths(folders) = <<>>
    THEN /\ pc' = "exited"
         /\ raised' = "No valid root folders specified"
         /\ UNCHANGED <<manager, ctor>>
    ELSE /\ ctor' = FileMCP(valid_paths(folders))
         /\ Initialize(FileMCP(valid_paths(folders)), valid_paths(folders))

\* the values of --roots and of MCP_ROOT_FOLDERS the server is started with
ArgvInputs ==
    {NoRoots, Roots(<<>>), Roots(<<"/data">>), Roots(<<"/data", "/nowhere">>),
     Roots(<<"/nowhere">>), Roots(<<"/data/a.txt", "sub">>)}

EnvInputs ==
    {None, Some(""), Some("/data2"), Some("/data;/data2"), Some(";"),
     Some("/nowhere;/data2;"), Some("/nowhere")}

Main ==
    /\ pc = "new"
    /\ \E roots \in ArgvInputs, env \in EnvInputs :
          /\ call' = [op |-> "main", roots |-> roots, env |-> env]
          /\ Start(ConfiguredRoots(roots, env))
    /\ UNCHANGED <<fs, scan_order, other, reply, result, opened, statted,
                   visited, progress, attempts, paths, validated_path, stack,
                   dirs_processed>>

\* a call that runs to its end in one step, with outcome r
Returns(c, r) ==
    /\ call' = c
    /\ raised' = r.raised
    /\ result' = r.result
    /\ opened' = r.opened
    /\ statted' = r.statted
    /\ visited' = r.visited
    /\ reply' = Reply(c, r.raised, r.result)
    /\ pc' = "done"
    /\ progress' = <<>>
    /\ attempts' = <<>>
    /\ paths' = <<>>
    /\ validated_path' = ""
    /\ stack' = <<>>
    /\ dirs_processed' = 0
    /\ FieldsKept
    /\ UNCHANGED <<ctor, fs, scan_order, other>>

ListFiles ==
    /\ pc = "idle"
    /\ \E path \in WalkInputs, depth \in ListDepths :
          Returns([op |-> "list_files", path |-> path, depth |-> depth],
                  list_files(path, depth))

SearchByName ==
    /\ pc = "idle"
    /\ \E pattern \in PatternInputs, path \in WalkInputs,
          max_depth \in NameDepths :
          Returns([op |-> "search_files_by_name", pattern |-> pattern,
                   path |-> path, depth |-> max_depth],
                  search_files_by_name(pattern, path, max_depth))

ReadFile ==
    /\ pc = "idle"
    /\ \E path \in PathInputs :
          Returns([op |-> "read_file", path |-> Some(path)], read_file(path))

GetFileInfo ==
    /\ pc = "idle"
    /\ \E path \in PathInputs :
          Returns([op |-> "get_file_info", path |-> Some(path)],
                  get_file_info(path))

GetFileMimetype ==
    /\ pc = "idle"
    /\ \E path \in PathInputs :
          Returns([op |-> "get_file_mimetype", path |-> Some(path)],
                  get_file_mimetype(path))

\* search_files_by_content up to its loop over the paths
BeginSearch ==
    /\ pc = "idle"
    /\ \E s \in SearchInputs :
          /\ call' = [op |-> "search_files_by_content", query |-> s.q.query,
                      path |-> s.path, is_regex |-> s.q.is_regex,
                      depth |-> s.max_depth,
                      progress_callback |-> s.progress_callback]
          /\ progress' = IF s.progress_callback THEN <<5>> ELSE <<>>
          /\ paths' = PathsOf(s.path)
    /\ result' = <<>>
    /\ raised' = "none"
    /\ opened' = {}
    /\ statted' = {}
    /\ visited' = <<>>
    /\ attempts' = <<>>
    /\ validated_path' = ""
    /\ stack' = <<>>
    /\ dirs_processed' = 0
    /\ pc' = "searching"
    /\ reply' = NoReply
    /\ FieldsKept
    /\ UNCHANGED <<ctor, fs, scan_order, other>>

\* the outcome v of validating the next path: an error ends the call,
\* otherwise the walk of the path begins
BeginWalk(v) ==
    IF v.error # "none"
    THEN /\ raised' = v.error
         /\ result' = <<>>
         /\ reply' = Reply(call, v.error, <<>>)
         /\ pc' = "done"
         /\ UNCHANGED <<paths, validated_path, stack>>
    ELSE /\ validated_path' = v.path
         /\ stack' = IF isdir(v.path) THEN <<v.path>> ELSE <<>>
         /\ paths' = Tail(paths)
         /\ UNCHANGED <<raised, result, pc, reply>>

\* the next path of the loop is validated and its walk begins
NextPath ==
    /\ pc = "searching"
    /\ stack = <<>>
    /\ paths # <<>>
    /\ BeginWalk(_validate_path(Head(paths)))
    /\ FieldsKept
    /\ UNCHANGED <<ctor, fs, scan_order, other, call, opened, statted, visited,
                   progress, attempts, dirs_processed>>

\* the file was given up: its size could not be read or its open failed
Failed(s) ==
    \/ s.skip = "error"
    \/ (s.tried # <<>> /\ s.tried[Len(s.tried)].outcome = "io_error")

\* a loop over the files of a directory that a failure on one file ends
RECURSIVE SearchFilesUntilFailure(_, _, _)
SearchFilesUntilFailure(files, query, is_regex) ==
    IF files = <<>> THEN <<>>
    ELSE <<[path |-> Head(files)] @@ SearchFile(Head(files), query, is_regex)>>
         \o (IF Failed(SearchFile(Head(files), query, is_regex)) THEN <<>>
             ELSE SearchFilesUntilFailure(Tail(files), query, is_regex))

\* the searches of the files of one directory, in the order of the listing
RECURSIVE SearchFiles(_, _, _)
SearchFiles(files, query, is_regex) ==
    IF files = <<>> THEN <<>>
    ELSE <<[path |-> Head(files)] @@ SearchFile(Head(files), query, is_regex)>>
         \o SearchFiles(Tail(files), query, is_regex)

PathsIn(searched) == [i \in 1..Len(searched) |-> searched[i].path]

HitsOf(searched) == PathsIn(SelectSeq(searched, IsHit))

\* the files of a directory below the depth limit are searched (with the
\* outcomes searched) and its sub-directories dirs are left to the walk
SearchDir(root, n, dirs, searched) ==
    /\ progress' = IF call.progress_callback /\ ReportsProgress(n)
                   THEN Append(progress, ProgressValue(n))
                   ELSE progress
    /\ stack' = Descend(root, dirs) \o Tail(stack)
    /\ result' = result \o HitsOf(searched)
    /\ attempts' = attempts \o searched
    /\ opened' = opened \cup
           UNION {Real(searched[i].path) :
                  i \in {j \in 1..Len(searched) : WasRead(searched[j])}}
    /\ statted' = statted \cup
           UNION {searched[i].statted : i \in 1..Len(searched)}

\* one round of the loop over os.walk, on directory root, the n-th processed
WalkRoot(root, n) ==
    /\ dirs_processed' = n
    /\ visited' = Append(visited, root)
    /\ IF current_depth(validated_path, root) >= call.depth
       THEN /\ stack' = Tail(stack)
            /\ UNCHANGED <<progress, result, attempts, opened, statted>>
       ELSE SearchDir(root, n, prune_restricted(root, walk_dirs(root)),
                      SearchFiles(FullPaths(root, walk_files(root)),
                                  call.query, call.is_regex))

WalkDir ==
    /\ pc = "searching"
    /\ stack # <<>>
    /\ WalkRoot(Head(stack), dirs_processed + 1)
    /\ FieldsKept
    /\ UNCHANGED <<ctor, fs, scan_order, other, reply, call, raised, paths,
                   validated_path, pc>>

\* a search that ends without its last progress report
NoLastReport(progress_callback, reported) == reported

\* the reports of the callback once the loop over the paths has ended
LastReport(progress_callback, reported) ==
    IF progress_callback THEN Append(reported, 100) ELSE reported

\* after the loop: the last progress report and the return
FinishSearch ==
    /\ pc = "searching"
    /\ stack = <<>>
    /\ paths = <<>>
    /\ progress' = LastReport(call.progress_callback, progress)
    /\ reply' = Reply(call, "none", result)
    /\ pc' = "done"
    /\ FieldsKept
    /\ UNCHANGED <<ctor, fs, scan_order, other, call, result, raised, opened,
                   statted, visited, attempts, paths, validated_path, stack,
                   dirs_processed>>

\* the caller takes the outcome of the call; the manager is ready again
Return ==
    /\ pc = "done"
    /\ pc' = "idle"
    /\ call' = [op |-> "none"]
    /\ result' = <<>>
    /\ raised' = "none"
    /\ opened' = {}
    /\ statted' = {}
    /\ visited' = <<>>
    /\ progress' = <<>>
    /\ attempts' = <<>>
    /\ paths' = <<>>
    /\ validated_path' = ""
    /\ stack' = <<>>
    /\ dirs_processed' = 0
    /\ other' = NoOther
    /\ reply' = NoReply
    /\ FieldsKept
    /\ UNCHANGED <<ctor, fs, scan_order>>

(***************************************************************************)
(* A second caller on the same manager.  Its calls run while a content     *)
(* search of the first caller is in progress, between two rounds of the    *)
(* search's loops.                                                         *)
(***************************************************************************)
ConcurrentCalls ==
    {[op |-> "list_files", path |-> Some("/data2"), depth |-> 1],
     [op |-> "search_files_by_name", pattern |-> "*.txt",
      path |-> Some("/data/sub"), depth |-> 1],
     [op |-> "read_file", path |-> Some("/data/a.txt")],
     [op |-> "get_file_info", path |-> Some("/data2/x.txt")]}

\* the outcome of a call that runs to its end
Serve(c) ==
    CASE c.op = "list_files" -> list_files(c.path, c.depth)
      [] c.op = "search_files_by_name" ->
             search_files_by_name(c.pattern, c.path, c.depth)
      [] c.op = "read_file" -> read_file(c.path.value)
      [] c.op = "get_file_info" -> get_file_info(c.path.value)
      [] c.op = "get_file_mimetype" -> get_file_mimetype(c.path.value)

Concurrent ==
    /\ pc = "searching"
    /\ \E c \in ConcurrentCalls : other' = [call |-> c, outcome |-> Serve(c)]
    /\ FieldsKept
    /\ UNCHANGED <<ctor, fs, scan_order, pc, reply, call, result, raised,
                   opened, statted, visited, progress, attempts, paths,
                   validated_path, stack, dirs_processed>>

Next ==
    \/ Construct
    \/ ListFiles
    \/ SearchByName
    \/ ReadFile
    \/ GetFileInfo
    \/ GetFileMimetype
    \/ BeginSearch
    \/ NextPath
    \/ WalkDir
    \/ FinishSearch
    \/ Return

Spec == Init /\ [][Next]_vars

(***************************************************************************)
(* Two callers on one manager, constructed with the roots /data/ and       *)
(* /data2 and the default restrictions                                     *)
(***************************************************************************)
TwoRoots == Args(List(<<"/data/", "/data2">>), <<>>, <<>>, <<>>, TRUE)

InitTwoCallers ==
    /\ fs = FS
    /\ scan_order = "forward"
    /\ ctor = TwoRoots
    /\ root_folders = _initialize_root_folders(AsList(TwoRoots.root_folders))
    /\ restricted_folders =
           _initialize_restrictions(<<>>, <<>>, <<>>, TRUE).folder
    /\ restricted_files =
           _initialize_restrictions(<<>>, <<>>, <<>>, TRUE).file
    /\ other = NoOther
    /\ reply = NoReply
    /\ pc = "idle"
    /\ call = [op |-> "none"]
    /\ result = <<>>
    /\ raised = "none"
    /\ opened = {}
    /\ statted = {}
    /\ visited = <<>>
    /\ progress = <<>>
    /\ attempts = <<>>
    /\ paths = <<>>
    /\ validated_path = ""
    /\ stack = <<>>
    /\ dirs_processed = 0

NextTwoCallers ==
    \/ ListFiles
    \/ SearchByName
    \/ ReadFile
    \/ GetFileInfo
    \/ GetFileMimetype
    \/ BeginSearch
    \/ NextPath
    \/ WalkDir
    \/ FinishSearch
    \/ Return
    \/ Concurrent

SpecTwoCallers == InitTwoCallers /\ [][NextTwoCallers]_vars

(***************************************************************************)
(* The server from its start-up on, with the tools that end in one step    *)
(***************************************************************************)
InitServer == Init /\ fs = FS

NextServer ==
    \/ Main
    \/ ListFiles
    \/ SearchByName
    \/ ReadFile
    \/ GetFileInfo
    \/ GetFileMimetype
    \/ Return

SpecServer == InitServer /\ [][NextServer]_vars

(***************************************************************************)
(* The notions the properties below are stated with                        *)
(***************************************************************************)
Done(op) == pc = "done" /\ call.op = op

FileOps == {"read_file", "get_file_info", "get_file_mimetype"}

\* the absolute form of the path the call was given
Requested == abspath(normpath(call.path.value))

\* path is the directory root or lies beneath it
InsideRoot(path, root) ==
    \/ path = root
    \/ startswith(path, IF endswith(root, sep) THEN root ELSE root \o sep)

InsideSomeRoot(path) ==
    \E i \in 1..Len(root_folders) : InsideRoot(path, root_folders[i])

\* the directories above a path, up to the top
Ancestors(path) ==
    {UpTo(path, k) : k \in {i \in 1..Len(path) : CharAt(path, i) = sep}}
    \ {path}

\* an ancestor of the path that lies beneath top is restricted
RestrictedBetween(top, path) ==
    \E a \in Ancestors(path) :
        a # top /\ InsideRoot(a, top) /\ _is_restricted_path(a)

RestrictedAbove(path) ==
    \E a \in Ancestors(path) : _is_restricted_path(a)

Range(s) == {s[i] : i \in 1..Len(s)}

Last(s) == s[Len(s)]

\* the number of directory levels between the directory top and the
\* directory that holds the file
DirLevel(top, file) == Len(Parts(dirname(file))) - Len(Parts(top))

\* a symbolic link stands between top and the path
LinkBetween(top, path) ==
    \E a \in Ancestors(path) : a # top /\ InsideRoot(a, top) /\ IsLinkAt(a)

\* the files a walk from the directory top with the given depth is to yield:
\* the non-restricted files fewer than depth levels below top that no
\* restricted directory and no symbolic link separates from top
FilesWithin(top, depth) ==
    {f \in DOMAIN fs :
        /\ f # top
        /\ InsideRoot(f, top)
        /\ ~isdir(f)
        /\ DirLevel(top, f) < depth
        /\ ~_is_restricted_path(f)
        /\ ~RestrictedBetween(top, f)
        /\ ~LinkBetween(top, f)}

\* the call walked one real directory, given as its path, and returned
WalkedFrom(op) ==
    /\ Done(op)
    /\ call.path.given
    /\ raised = "none"
    /\ isdir(Requested)
    /\ realpath(Requested) = Requested

(***************************************************************************)
(* C1: a requested path whose normalized absolute form lies in no root     *)
(* folder (it neither is a root nor lies beneath one) fails validation     *)
(* with the outside-root error.                                            *)
(***************************************************************************)
C1_OutsideRootsIsRejected ==
    (pc = "done" /\ call.op \in FileOps /\ ~InsideSomeRoot(Requested))
        => raised = "outside all root folders"

(***************************************************************************)
(* C2: with the default restrictions, a path under a root that matches a   *)
(* restriction, by its basename or by one of its directory components,     *)
(* fails validation with the restricted-path error, so the operations on   *)
(* one file never access it.                                               *)
(***************************************************************************)
C2_RestrictedIsRejected ==
    (/\ pc = "done"
     /\ call.op \in FileOps
     /\ restricted_files # <<>>
     /\ InsideSomeRoot(Requested)
     /\ (_is_restricted_path(Requested) \/ RestrictedAbove(Requested)))
        => (raised = "in a restricted area" /\ opened = {} /\ statted = {})

(***************************************************************************)
(* C3: no operation reads or stats an object that resolves outside every   *)
(* root: a path that lies inside a root as written but is, or passes       *)
(* through, a symbolic link to the outside is never opened.                *)
(***************************************************************************)
C3_NothingOutsideRootsIsAccessed ==
    (/\ pc = "done"
     /\ call.op \in FileOps \cup {"search_files_by_content"}
     /\ call.path.given
     /\ InsideSomeRoot(Requested))
        => \A real \in opened \cup statted : InsideSomeRoot(real)

(***************************************************************************)
(* C4: list_files never returns a file that has an ancestor directory      *)
(* matching a restriction, at any level above the file, the ancestors of   *)
(* the starting path included.                                             *)
(***************************************************************************)
C4_NoFileBelowRestrictedDirectory ==
    Done("list_files") =>
        \A i \in 1..Len(result) : ~RestrictedAbove(result[i])

(***************************************************************************)
(* C5: list_files(p, depth) returns exactly the non-restricted files whose *)
(* directory is fewer than depth levels below p.                           *)
(***************************************************************************)
C5_ListedExactlyWithinDepth ==
    WalkedFrom("list_files") =>
        Range(result) = FilesWithin(Requested, call.depth)

(***************************************************************************)
(* C6: search_files_by_name(pattern, root) returns, as a set, exactly the  *)
(* non-restricted files within max_depth under root whose basename         *)
(* matches the pattern, whatever the order of the directory listings.      *)
(***************************************************************************)
C6_NamedExactlyWithinDepth ==
    WalkedFrom("search_files_by_name") =>
        Range(result) = {f \in FilesWithin(Requested, call.depth) :
                            fnmatch(basename(f), call.pattern)}

(***************************************************************************)
(* The content search, while it runs and once it has ended                 *)
(***************************************************************************)
InSearch == call.op = "search_files_by_content"

\* the encodings were tried in the fixed order, from the first one on
InOrder(tried) ==
    /\ Len(tried) <= Len(encodings)
    /\ \A k \in 1..Len(tried) : tried[k].encoding = encodings[k]

\* only a decode error led on to a further encoding
OnlyDecodeErrorsBefore(tried) ==
    \A k \in 1..(Len(tried) - 1) : tried[k].outcome = "decode_error"

\* a decode error or a text without a match led on to the next encoding,
\* and the loop ended early only on a match or an I/O error
MatchOrErrorEnds(tried) ==
    /\ \A k \in 1..(Len(tried) - 1) :
           tried[k].outcome \in {"decode_error", "no_match"}
    /\ (tried # <<>> /\ Last(tried).outcome \in {"decode_error", "no_match"})
           => Len(tried) = Len(encodings)

(***************************************************************************)
(* C7, as stated: the encodings are tried in the fixed order and the first *)
(* one that decodes the file is the only one whose text is tested, so that *)
(* only a decode error moves on to the next encoding.                      *)
(***************************************************************************)
C7_FirstDecodedTextDecides ==
    InSearch =>
        \A i \in 1..Len(attempts) :
            /\ InOrder(attempts[i].tried)
            /\ OnlyDecodeErrorsBefore(attempts[i].tried)

(***************************************************************************)
(* C7, amended: the encodings are tried in the fixed order; a decode error *)
(* moves on to the next encoding and so does a text that does not match;   *)
(* the first text that matches puts the file in the result and ends the    *)
(* loop; an I/O error abandons the file; a file is in the result only      *)
(* through a match.                                                        *)
(***************************************************************************)
C7_FirstMatchingTextDecides ==
    InSearch =>
        \A i \in 1..Len(attempts) :
            /\ InOrder(attempts[i].tried)
            /\ MatchOrErrorEnds(attempts[i].tried)
            /\ attempts[i].skip = "no" => attempts[i].tried # <<>>
            /\ raised = "none" =>
                   (IsHit(attempts[i]) <=> attempts[i].path \in Range(result))

\* a file whose text under an earlier encoding did not match was found
\* through a later encoding
C7_MatchAfterNoMatch ==
    /\ Done("search_files_by_content")
    /\ \E i \in 1..Len(attempts) :
           /\ IsHit(attempts[i])
           /\ attempts[i].tried[1].outcome = "no_match"
           /\ attempts[i].path \in Range(result)

Count100(reported) ==
    Cardinality({k \in 1..Len(reported) : reported[k] = 100})

ReportedTo100(reported) ==
    reported # <<>> /\ Last(reported) = 100 /\ Count100(reported) = 1

(***************************************************************************)
(* C8, as stated: a content search with a progress callback reports        *)
(* (100, 100) exactly once, as its last report, however the call ends.     *)
(***************************************************************************)
C8_Reports100HoweverItEnds ==
    (Done("search_files_by_content") /\ call.progress_callback)
        => ReportedTo100(progress)

(***************************************************************************)
(* C8, amended: a content search with a progress callback that returns     *)
(* reports (100, 100) exactly once, as its last report; one that ends with *)
(* a validation error does not report (100, 100).                          *)
(***************************************************************************)
C8_Reports100WhenItReturns ==
    (Done("search_files_by_content") /\ call.progress_callback)
        => IF raised = "none" THEN ReportedTo100(progress)
           ELSE Count100(progress) = 0

\* a search that reported intermediate progress has returned
C8_ReturnedAfterUpdates ==
    /\ Done("search_files_by_content")
    /\ call.progress_callback
    /\ raised = "none"
    /\ Len(progress) >= 3
    /\ Last(progress) = 100

NonDecreasing(reported) ==
    \A k \in 1..(Len(reported) - 1) : reported[k] <= reported[k + 1]

(***************************************************************************)
(* C9: within one content search the reported percent values never         *)
(* decrease: the first is 5, every intermediate value lies in 5..85 and    *)
(* belongs to a 5th processed directory, and nothing follows the final     *)
(* 100.                                                                    *)
(***************************************************************************)
C9_ProgressNeverDecreases ==
    InSearch =>
        /\ NonDecreasing(progress)
        /\ call.progress_callback <=> progress # <<>>
        /\ call.progress_callback => progress[1] = 5
        /\ \A k \in 1..Len(progress) :
               IF progress[k] = 100
               THEN k = Len(progress) /\ pc = "done"
               ELSE progress[k] \in 5..85
        /\ \A k \in 2..Len(progress) :
               progress[k] # 100 =>
                   \E n \in 1..dirs_processed :
                       ReportsProgress(n) /\ progress[k] = ProgressValue(n)

\* a search over more than total_dirs directories has reported 85 and 100
C9_ReportedPastTotal ==
    /\ Done("search_files_by_content")
    /\ dirs_processed > total_dirs
    /\ \E k \in 1..Len(progress) : progress[k] = 85
    /\ Last(progress) = 100

\* the paths the walk of the call starts from
Starts == IF call.path.given THEN {Requested} ELSE Range(root_folders)

\* the walk found the directory below its depth limit
BelowLimit(dir) ==
    \E start \in Starts :
        InsideRoot(dir, start) /\ current_depth(start, dir) < call.depth

\* the files of the directories the walk listed below its depth limit
FilesWalked ==
    UNION {Range(FullPaths(visited[k], walk_files(visited[k]))) :
           k \in {j \in 1..Len(visited) : BelowLimit(visited[j])}}

\* the file can be read and its text, under one of the encodings, matches
ReadableMatch(real, query, is_regex) ==
    /\ IsKind(real, "file")
    /\ fs[real].readable
    /\ getsize(real) <= MaxContentSize
    /\ \E k \in 1..Len(encodings) :
           TextOutcome(read_text(Content(real), encodings[k]), query,
                       is_regex) = "match"

Matching(file, query, is_regex) ==
    /\ ~_is_restricted_path(file)
    /\ ~_is_likely_binary(file)
    /\ ReadableMatch(realpath(file), query, is_regex)

(***************************************************************************)
(* C10: in the two searches a failure on one file (its size cannot be      *)
(* read, its open is refused, no encoding decodes it) only leaves that     *)
(* file out: the call raises no error for it, the walk goes on with the    *)
(* next file, and every other readable matching file within the depth is   *)
(* returned.                                                               *)
(***************************************************************************)
C10_FileFailureOnlyExcludesTheFile ==
    /\ InSearch =>
           /\ raised \in {"none", "outside all root folders",
                          "in a restricted area"}
           /\ {attempts[i].path : i \in 1..Len(attempts)} = FilesWalked
           /\ raised = "none" =>
                  \A f \in FilesWalked :
                      Matching(f, call.query, call.is_regex)
                          => f \in Range(result)
    /\ (Done("search_files_by_name") /\ raised = "none") =>
           \A f \in FilesWalked :
               (~_is_restricted_path(f) /\ fnmatch(basename(f), call.pattern))
                   => f \in Range(result)

\* a search has returned a file that it searched after a file that failed
C10_HitAfterFailure ==
    /\ Done("search_files_by_content")
    /\ raised = "none"
    /\ \E i \in 1..Len(attempts) :
           /\ Failed(attempts[i])
           /\ \E j \in (i + 1)..Len(attempts) :
                  /\ IsHit(attempts[j])
                  /\ attempts[j].path \in Range(result)

(***************************************************************************)
(* The calls that walk, and the validation of the paths they go through    *)
(***************************************************************************)
WalkOps == {"list_files", "search_files_by_name", "search_files_by_content"}

\* the paths the call goes through, in order
CallPaths == PathsOf(call.path)

\* the positions of the paths that fail validation
Failing ==
    {i \in 1..Len(CallPaths) : _validate_path(CallPaths[i]).error # "none"}

Least(S) == CHOOSE i \in S : \A j \in S : i <= j

C12_InvalidRegexFindsNothing ==
    (InSearch /\ call.is_regex /\ call.query = b_unbalanced) =>
        /\ result = <<>>
        /\ raised = (IF pc = "done" /\ Failing # {}
                     THEN _validate_path(CallPaths[Least(Failing)]).error
                     ELSE "none")
        /\ \A i \in 1..Len(attempts) :
               /\ ~IsHit(attempts[i])
               /\ (attempts[i].skip = "no" /\ ~Failed(attempts[i]))
                      => Len(attempts[i].tried) = Len(encodings)

\* a search with the invalid pattern has returned, having read a file that
\* holds "needle" under every encoding
C12_ReturnedEmpty ==
    /\ Done("search_files_by_content")
    /\ call.is_regex
    /\ call.query = b_unbalanced
    /\ raised = "none"
    /\ result = <<>>
    /\ \E i \in 1..Len(attempts) :
           /\ Len(attempts[i].tried) = Len(encodings)
           /\ Content(realpath(attempts[i].path)) = b_needle

\* the file of an attempt exists and is larger than the limit
OverLimit(path) ==
    realpath(path) # NoPath /\ getsize(realpath(path)) > MaxContentSize

(***************************************************************************)
(* C13: the content search leaves a file out on size grounds exactly when  *)
(* its size is strictly greater than 5 * 1024 * 1024 bytes: such a file is *)
(* never returned, whatever it holds, and a matching file of exactly that  *)
(* size is returned.                                                       *)
(***************************************************************************)
C13_ExcludedExactlyAboveLimit ==
    InSearch =>
        /\ \A i \in 1..Len(attempts) :
               /\ ~_is_restricted_path(attempts[i].path) =>
                      (attempts[i].skip = "too_large"
                           <=> OverLimit(attempts[i].path))
               /\ (/\ ~OverLimit(attempts[i].path)
                   /\ Matching(attempts[i].path, call.query, call.is_regex))
                      => IsHit(attempts[i])
        /\ \A k \in 1..Len(result) : ~OverLimit(result[k])

\* a search has left out the file one byte above the limit, which holds the
\* query, and returned the file of exactly the limit
C13_AtLimitReturned ==
    /\ Done("search_files_by_content")
    /\ raised = "none"
    /\ fs = FS
    /\ getsize("/data2/max.txt") = MaxContentSize
    /\ getsize("/data2/big.txt") = MaxContentSize + 1
    /\ "/data2/max.txt" \in Range(result)
    /\ "/data2/big.txt" \notin Range(result)
    /\ \E i \in 1..Len(attempts) :
           /\ attempts[i].path = "/data2/big.txt"
           /\ attempts[i].skip = "too_large"
    /\ Contains(Content("/data2/big.txt"), call.query)

\* the entries of the root_folders argument of the constructor
Entries == AsList(ctor.root_folders)

(***************************************************************************)
(* C14: the constructor fails, and leaves no manager, when an entry of     *)
(* root_folders is missing or is no directory; when it succeeds,           *)
(* root_folders holds the absolute normalized path of each entry, in the   *)
(* order given, a single string counting as a list of one.                 *)
(***************************************************************************)
C14_RootsAreExistingDirectories ==
    pc # "new" =>
        IF \E i \in 1..Len(Entries) : ~isdir(abspath(normpath(Entries[i])))
        THEN /\ pc = "failed"
             /\ raised = "does not exist"
             /\ manager = << <<>>, <<>>, <<>> >>
        ELSE /\ pc # "failed"
             /\ Len(root_folders) = Len(Entries)
             /\ \A i \in 1..Len(Entries) :
                    /\ root_folders[i] = abspath(normpath(Entries[i]))
                    /\ isabs(root_folders[i])
                    /\ normpath(root_folders[i]) = root_folders[i]
                    /\ isdir(root_folders[i])

\* the constructor has failed on an entry that exists but is a file
C14_FileAsRootFails ==
    /\ pc = "failed"
    /\ \E i \in 1..Len(Entries) : isfile(abspath(normpath(Entries[i])))

\* the patterns of the caller's ignore_patterns, all groups together
IgnoreSupplied == UNION {Range(ctor.ignore_patterns[g]) :
                         g \in 1..Len(ctor.ignore_patterns)}

\* what the caller supplied as folder restrictions, the absolute ones in
\* normalized form, and as file restrictions
FoldersSupplied ==
    {IF isabs(p) THEN abspath(normpath(p)) ELSE p :
        p \in Range(ctor.restricted_folders)
               \cup {q \in IgnoreSupplied : IsFolderPattern(q)}}

FilesSupplied ==
    Range(ctor.restricted_files)
    \cup {q \in IgnoreSupplied : ~IsFolderPattern(q)}

Constructed == pc \notin {"new", "failed"}

(***************************************************************************)
(* C15: with include_defaults false the built-in data contributes nothing: *)
(* the restrictions are exactly what the caller supplied as                *)
(* restricted_folders, restricted_files and ignore_patterns, and with none *)
(* supplied no path is restricted, so that <root>/.git/config and a .log   *)
(* file are listed and can be read.                                        *)
(***************************************************************************)
C15_NoDefaultsWhenNotIncluded ==
    (Constructed /\ ~ctor.include_defaults) =>
        /\ Range(restricted_folders) = FoldersSupplied
        /\ Range(restricted_files) = FilesSupplied
        /\ (FoldersSupplied = {} /\ FilesSupplied = {}) =>
               /\ \A p \in DOMAIN fs : ~_is_restricted_path(p)
               /\ raised # "in a restricted area"
               /\ (Done("read_file") /\ isfile(Requested)
                   /\ InsideSomeRoot(Requested)
                   /\ fs[realpath(Requested)].readable)
                      => (/\ opened = Real(Requested)
                          /\ raised \in {"none", "UnicodeDecodeError"})
               /\ (WalkedFrom("list_files") /\ Requested = "/data"
                   /\ call.depth = 2)
                      => {"/data/.git/config", "/data/sub/b.log"}
                             \subseteq Range(result)

\* a manager without defaults and without restrictions has listed
\* /data/.git/config and /data/sub/b.log
C15_GitConfigListed ==
    /\ Done("list_files")
    /\ ~ctor.include_defaults
    /\ restricted_folders = <<>>
    /\ restricted_files = <<>>
    /\ "/data/.git/config" \in Range(result)
    /\ "/data/sub/b.log" \in Range(result)

\* the root folder /data that holds a.txt ("hello world"), sub/b.log and
\* .git/config, under a manager with the default restrictions
SmallData ==
    /\ fs = SmallFS
    /\ Constructed
    /\ root_folders = <<"/data">>
    /\ ctor = Args(ctor.root_folders, <<>>, <<>>, <<>>, TRUE)

CalledOn(op, path) == Done(op) /\ call.path = Some(path)

(***************************************************************************)
(* C16: with the default restrictions and the root /data that holds        *)
(* a.txt, sub/b.log and .git/config, list_files("/data", depth=2) returns  *)
(* exactly ["/data/a.txt"], search_files_by_content("world", "/data")      *)
(* returns exactly ["/data/a.txt"] and search_files_by_name("*.log",       *)
(* "/data") returns [].                                                    *)
(***************************************************************************)
C16_SmallDataResults ==
    SmallData =>
        /\ (CalledOn("list_files", "/data") /\ call.depth = 2)
               => (raised = "none" /\ result = <<"/data/a.txt">>)
        /\ (/\ CalledOn("search_files_by_content", "/data")
            /\ call.query = b_world
            /\ ~call.is_regex
            /\ call.depth = DefaultContentDepth)
               => (raised = "none" /\ result = <<"/data/a.txt">>)
        /\ (/\ CalledOn("search_files_by_name", "/data")
            /\ call.pattern = "*.log"
            /\ call.depth = DefaultNameDepth)
               => (raised = "none" /\ result = <<>>)

\* the content search for "world" has returned a.txt, having passed over
\* sub/b.log, which holds "world" too
C16_WorldFound ==
    /\ SmallData
    /\ CalledOn("search_files_by_content", "/data")
    /\ call.query = b_world
    /\ call.depth = DefaultContentDepth
    /\ result = <<"/data/a.txt">>
    /\ \E i \in 1..Len(attempts) :
           /\ attempts[i].path = "/data/sub/b.log"
           /\ attempts[i].skip = "restricted"
           /\ Contains(Content("/data/sub/b.log"), b_world)

\* the same character, or the two cases of one letter
SameLetter(a, b) ==
    \/ a = b
    \/ (a \in 65..90 /\ b = a + 32)
    \/ (b \in 65..90 /\ a = b + 32)

\* the text holds the word somewhere, the case of the letters set aside
HoldsIgnoringCase(text, word) ==
    \E o \in 0..(Len(text) - Len(word)) :
        \A k \in 1..Len(word) : SameLetter(text[o + k], word[k])

LettersOnly(word) == \A k \in 1..Len(word) : word[k] \in 65..90 \cup 97..122

\* the text of the file of an attempt under an encoding that decodes it
TextOf(path, encoding) == read_text(Content(realpath(path)), encoding).text

(***************************************************************************)
(* C17: the content search ignores case in both directions: without        *)
(* is_regex a decoded text matches exactly when it holds the query with    *)
(* the case of the letters set aside, and with is_regex a pattern of       *)
(* letters matches likewise, anywhere in the text.                         *)
(***************************************************************************)
C17_MatchIgnoresCase ==
    (InSearch /\ LettersOnly(call.query)) =>
        \A i \in 1..Len(attempts) :
            \A k \in 1..Len(attempts[i].tried) :
                attempts[i].tried[k].outcome \in {"match", "no_match"} =>
                    (attempts[i].tried[k].outcome = "match"
                         <=> HoldsIgnoringCase(
                                 TextOf(attempts[i].path,
                                        attempts[i].tried[k].encoding),
                                 call.query))

\* the pattern "Edle" has found a file that holds "NEEDLE" and a file that
\* holds "needle"
C17_BothCasesFound ==
    /\ Done("search_files_by_content")
    /\ call.is_regex
    /\ call.query = b_Edle
    /\ {"/data/sub/c.txt", "/data/sub/deep/e.txt"} \subseteq Range(result)
    /\ Content("/data/sub/c.txt") = <<78, 69, 69, 68, 76, 69>>
    /\ Content("/data/sub/deep/e.txt") = b_needle

(***************************************************************************)
(* C18: _validate_path tests the roots before the restrictions: a path     *)
(* that lies in no root folder and matches a restriction is refused with   *)
(* the outside-root error, never with the restricted-path error.           *)
(***************************************************************************)
C18_OutsideRootReportedFirst ==
    (/\ pc = "done"
     /\ call.op \in FileOps
     /\ ~InsideSomeRoot(Requested)
     /\ _is_restricted_path(Requested))
        => raised = "outside all root folders"

ValidationErrors == {"outside all root folders", "in a restricted area"}

(***************************************************************************)
(* C19: read_file, get_file_info and get_file_mimetype validate the path,  *)
(* then test that it is a regular file, then open or stat it: a path that  *)
(* fails validation yields the validation error, whether or not it is a    *)
(* directory or missing, and is neither opened nor stat-ed; a validated    *)
(* path that is a directory or is missing yields the not-a-file error and  *)
(* nothing is read.                                                        *)
(***************************************************************************)
C19_ValidatedThenTestedThenOpened ==
    (pc = "done" /\ call.op \in FileOps) =>
        IF _validate_path(call.path.value).error # "none"
        THEN /\ raised = _validate_path(call.path.value).error
             /\ opened = {}
             /\ statted = {}
        ELSE IF ~isfile(Requested)
        THEN /\ raised = "is not a file"
             /\ opened = {}
             /\ result = <<>>
        ELSE raised \notin ValidationErrors \cup {"is not a file"}

\* a path that is a directory outside the roots was refused by validation,
\* without a look at the filesystem
C19_DirectoryRefusedUnseen ==
    /\ pc = "done"
    /\ call.op \in FileOps
    /\ isdir(Requested)
    /\ raised = "outside all root folders"
    /\ statted = {}
    /\ opened = {}

\* the fields of the manager are what the constructor made of its arguments
AsConstructed ==
    /\ root_folders = _initialize_root_folders(AsList(ctor.root_folders))
    /\ restricted_folders =
           _initialize_restrictions(ctor.restricted_folders,
               ctor.restricted_files, ctor.ignore_patterns,
               ctor.include_defaults).folder
    /\ restricted_files =
           _initialize_restrictions(ctor.restricted_folders,
               ctor.restricted_files, ctor.ignore_patterns,
               ctor.include_defaults).file

\* the second caller got what its call yields on the manager as constructed
ServedAsAlone ==
    other.call.op # "none" => other.outcome = Serve(other.call)

\* the search of the first caller returned the matching files of the
\* directories it walked, whatever the second caller did meanwhile
SearchedAsAlone ==
    (Done("search_files_by_content") /\ raised = "none") =>
        Range(result) = {f \in FilesWalked :
                            Matching(f, call.query, call.is_regex)}

(***************************************************************************)
(* C20: once the manager is constructed no operation, whether it returns   *)
(* or raises, changes root_folders, restricted_folders or                  *)
(* restricted_files; so the calls of two callers that interleave on one    *)
(* manager, over a filesystem that does not change, each get the outcome   *)
(* they would get alone.                                                   *)
(***************************************************************************)
C20_OperationsKeepTheManager ==
    /\ [][manager' = manager]_vars
    /\ [](AsConstructed /\ ServedAsAlone /\ SearchedAsAlone)

\* a search over both roots has returned its matches while the second
\* caller listed a root in the middle of it
C20_ListedDuringSearch ==
    /\ Done("search_files_by_content")
    /\ raised = "none"
    /\ result # <<>>
    /\ Len(visited) >= 2
    /\ other.call.op = "list_files"
    /\ other.outcome.result # <<>>

(***************************************************************************)
(* The tools of the server, as their client sees them                      *)
(***************************************************************************)
\* a tool call has ended
Replied(op) == Done(op) /\ ViaTool(call)

\* the message of the error the manager ended the call with
ErrorMessage == str_e(raised, ErrorPath(call))

\* the reply is a list without an error entry: every entry is a path
ListOfPaths(value) ==
    \A i \in 1..Len(value) :
        isabs(value[i]) /\ ~startswith(value[i], "Error: ")

(***************************************************************************)
(* C21: every tool (list_files, read_file, get_file_info,                  *)
(* get_file_mimetype, search_files_by_name, search_files_by_content)       *)
(* hands an error of the manager to its client as a returned value that    *)
(* carries the message of the error: a list of the one entry "Error: ..."  *)
(* from the tools that return lists, a mapping with success false and the  *)
(* message from the others.  No error leaves a tool as an exception, and   *)
(* none comes back as an empty list or as a value a call that went well    *)
(* returns.                                                                *)
(***************************************************************************)
C21_ToolsReturnEveryError ==
    (pc = "done" /\ ViaTool(call)) =>
        /\ reply.propagated = "none"
        /\ raised = "none" =>
               /\ reply.value = result
               /\ call.op \in ListTools => ListOfPaths(reply.value)
               /\ call.op = "get_file_info" =>
                      "success" \notin DOMAIN reply.value
        /\ (raised # "none" /\ call.op \in ListTools) =>
               /\ reply.value = <<"Error: " \o ErrorMessage>>
               /\ ~ListOfPaths(reply.value)
        /\ (raised # "none" /\ call.op \in {"read_file", "get_file_info"}) =>
               /\ reply.value = [success |-> FALSE, error |-> ErrorMessage]
        /\ (raised # "none" /\ call.op = "get_file_mimetype") =>
               /\ reply.value.success = FALSE
               /\ reply.value.error = "Error: " \o ErrorMessage

\* read_file on a file the process may not open has returned the mapping
\* that carries the message of the operating system
C21_PermissionErrorReturned ==
    /\ Replied("read_file")
    /\ raised = "PermissionError"
    /\ reply = Returned([success |-> FALSE,
                         error |-> "[Errno 13] Permission denied: "
                                   \o "'/data/lock.txt'"])

\* the absolute folder restrictions that hold no wildcard
PlainAbsolute(r) == isabs(r) /\ ~HasChar(r, "*")

\* the restrictions apply to the path, an absolute folder restriction
\* without wildcard applying to the folder itself and to what lies beneath
RestrictedBeneath(path) ==
    \/ \E i \in 1..Len(restricted_folders) :
           IF PlainAbsolute(restricted_folders[i])
           THEN InsideRoot(path, restricted_folders[i])
           ELSE FolderRestricts(restricted_folders[i], path, split(path))
    \/ \E i \in 1..Len(restricted_files) :
           fnmatch(basename(path), restricted_files[i])

(***************************************************************************)
(* C22: an absolute folder restriction r without wildcard restricts a path *)
(* p exactly when r is a path-prefix of p: p is r, or p begins with r      *)
(* followed by a separator.  A path whose name only extends the last       *)
(* segment of r (r = /data/priv, p = /data/private/x) is not restricted by *)
(* r.                                                                      *)
(***************************************************************************)
C22_AbsoluteFolderIsPathPrefix ==
    (pc = "done" /\ call.op \in FileOps /\ _is_in_root_folders(Requested)) =>
        /\ raised = "in a restricted area" <=> RestrictedBeneath(Requested)
        /\ \A i \in 1..Len(restricted_folders) :
               PlainAbsolute(restricted_folders[i]) =>
                   (FolderRestricts(restricted_folders[i], Requested,
                                    split(Requested))
                        <=> InsideRoot(Requested, restricted_folders[i]))

\* the pieces of a path or of a pattern that the separators delimit; the
\* piece before the leading separator of an absolute path is the empty one
Segments(s) == split(s)

\* the run of segments that begins at position s matches the patterns
\* position by position
RunAt(segs, pats, s) ==
    \A j \in 1..Len(pats) : fnmatch(segs[s + j - 1], pats[j])

HasRun(segs, pats) ==
    \E s \in 1..(Len(segs) - Len(pats) + 1) : RunAt(segs, pats, s)

RelativeFolders ==
    {restricted_folders[i] : i \in {k \in 1..Len(restricted_folders) :
                                       ~isabs(restricted_folders[k])}}

AbsoluteFolders == Range(restricted_folders) \ RelativeFolders

\* a file restriction, or an absolute folder restriction, applies
OtherwiseRestricted(path) ==
    \/ \E r \in AbsoluteFolders : FolderRestricts(r, path, split(path))
    \/ \E i \in 1..Len(restricted_files) :
           fnmatch(basename(path), restricted_files[i])

\* a file operation has ended on a path that passed the test of the roots
Tested == pc = "done" /\ call.op \in FileOps /\ _is_in_root_folders(Requested)

(***************************************************************************)
(* C23: a relative folder restriction r of k segments restricts a path p   *)
(* exactly when some run of k consecutive segments of the absolute path p  *)
(* glob-matches the segments of r position by position.  The run may start *)
(* at any position: a pattern of one segment such as node_modules          *)
(* restricts every path that has a segment of that name, the last segment  *)
(* included, and a pattern of several segments matches contiguous runs     *)
(* only.                                                                   *)
(***************************************************************************)
C23_RelativeFolderMatchesAnyRun ==
    Tested =>
        /\ \A r \in RelativeFolders :
               FolderRestricts(r, Requested, split(Requested))
                   <=> HasRun(Segments(Requested), Segments(r))
        /\ (\E r \in RelativeFolders :
                HasRun(Segments(Requested), Segments(r)))
               => raised = "in a restricted area"
        /\ raised = "in a restricted area" =>
               \/ \E r \in RelativeFolders :
                      HasRun(Segments(Requested), Segments(r))
               \/ OtherwiseRestricted(Requested)
        /\ ("node_modules" \in RelativeFolders
            /\ "node_modules" \in Range(Segments(Requested)))
               => raised = "in a restricted area"

\* a path whose last segment is node_modules was refused on account of the
\* pattern node_modules
C23_LastSegmentRestricted ==
    /\ Tested
    /\ Last(Segments(Requested)) = "node_modules"
    /\ "node_modules" \in RelativeFolders
    /\ ~OtherwiseRestricted(Requested)
    /\ raised = "in a restricted area"

\* the absolute folder restrictions that hold a wildcard
WildAbsolute == {r \in AbsoluteFolders : HasChar(r, "*")}

\* the pattern from position j on matches a run of the path that begins at
\* position i: a '*' stands for any run of characters, every other
\* character for itself, and the path may go on after the run
RECURSIVE PrefixMatchesFrom(_, _, _, _)
PrefixMatchesFrom(path, i, pat, j) ==
    IF j > Len(pat) THEN TRUE
    ELSE IF CharAt(pat, j) = "*"
         THEN \E k \in i..(Len(path) + 1) :
                 PrefixMatchesFrom(path, k, pat, j + 1)
    ELSE /\ i <= Len(path)
         /\ CharAt(path, i) = CharAt(pat, j)
         /\ PrefixMatchesFrom(path, i + 1, pat, j + 1)

\* some prefix of the path matches the pattern
SomePrefixMatches(path, pat) == PrefixMatchesFrom(path, 1, pat, 1)

(***************************************************************************)
(* C24: an absolute folder restriction r that holds '*' restricts a path p *)
(* exactly when some prefix of p matches r, every character of r but '*'   *)
(* taken literally and each '*' standing for any run of characters, the    *)
(* empty one included.  The match begins at the start of p and p need not  *)
(* end where r ends, so everything beneath a matching directory is         *)
(* restricted too.                                                         *)
(***************************************************************************)
C24_AbsoluteWildcardMatchesPrefix ==
    Tested =>
        /\ \A r \in WildAbsolute :
               FolderRestricts(r, Requested, split(Requested))
                   <=> SomePrefixMatches(Requested, r)
        /\ (\E r \in WildAbsolute : SomePrefixMatches(Requested, r))
               => raised = "in a restricted area"

RECURSIVE Flatten(_)
Flatten(groups) ==
    IF groups = <<>> THEN <<>> ELSE Head(groups) \o Flatten(Tail(groups))

\* the patterns that are categorized: the built-in ones when the defaults
\* are included, then those of the caller's ignore_patterns
Categorized ==
    (IF ctor.include_defaults THEN Flatten(DEFAULT_IGNORE_PATTERNS) ELSE <<>>)
    \o Flatten(ctor.ignore_patterns)

\* the pattern ends in '/' or holds no '.' after its last '/'
FolderLike(pattern) ==
    \/ (pattern # "" /\ CharAt(pattern, Len(pattern)) = "/")
    \/ ~HasChar(Last(split(pattern)), ".")

\* the form in which a folder restriction is kept
Kept(p) == IF isabs(p) THEN abspath(normpath(p)) ELSE p

\* how many entries of the sequence are kept as x
CountOf(seq, x) == Cardinality({i \in 1..Len(seq) : Kept(seq[i]) = x})

\* how many times a file restriction occurs
TimesIn(seq, x) == Cardinality({i \in 1..Len(seq) : seq[i] = x})

\* the folder restrictions that are not categorized: the built-in paths
\* when the defaults are included, and the caller's restricted_folders
FoldersAsGiven ==
    (IF ctor.include_defaults THEN DEFAULT_RESTRICTED_PATHS ELSE <<>>)
    \o ctor.restricted_folders

\* the constructor has returned and no call is in progress
JustConstructed == pc = "idle"

(***************************************************************************)
(* C25: a pattern of the built-in groups or of ignore_patterns becomes a   *)
(* folder restriction if it ends in '/' or its basename holds no '.', and  *)
(* a file restriction otherwise; each pattern lands in exactly one of the  *)
(* two collections.  The caller's restricted_folders and restricted_files  *)
(* are taken as given, without categorization.                             *)
(***************************************************************************)
C25_PatternsAreCategorized ==
    JustConstructed =>
        /\ \A x \in Range(restricted_folders) \cup Range(Categorized) :
               CountOf(restricted_folders, x) =
                   CountOf(SelectSeq(Categorized, FolderLike), x)
                   + CountOf(FoldersAsGiven, x)
        /\ \A x \in Range(restricted_files) \cup Range(Categorized) :
               TimesIn(restricted_files, x) =
                   TimesIn(SelectSeq(Categorized,
                                     LAMBDA p : ~FolderLike(p)), x)
                   + TimesIn(ctor.restricted_files, x)
        /\ Len(restricted_folders) + Len(restricted_files) =
               Len(Categorized) + Len(FoldersAsGiven)
               + Len(ctor.restricted_files)

\* a manager was constructed from patterns that end in '/', that hold a '.'
\* before the last '/' only, and that hold one in the basename, and from a
\* file restriction without '.' and a folder restriction with one
C25_MixedPatternsCategorized ==
    /\ JustConstructed
    /\ {"docs.d/", "a.b/c", "dist", "data/c.txt"}
           \subseteq Range(restricted_folders)
    /\ {"x/y.z", "*.log", "Makefile"} \subseteq Range(restricted_files)
    /\ "a.b/c" \in Range(Categorized)
    /\ "Makefile" \in Range(ctor.restricted_files)

\* the relative folder restrictions written with a trailing separator
Slashed == {r \in RelativeFolders : Len(r) > 1 /\ endswith(r, sep)}

\* the pattern without its trailing separator
Unslashed(r) == SubSeq(r, 1, Len(r) - 1)

\* the path holds a run of segments that the pattern without its trailing
\* separator matches
NamedBy(path, r) == HasRun(Segments(path), Segments(Unslashed(r)))

(***************************************************************************)
(* C26: a relative folder pattern written with a trailing '/' ('build/' in *)
(* ignore_patterns), which the categorization takes for a folder pattern,  *)
(* restricts the same paths as the pattern without the slash: the          *)
(* directories of that name are pruned from the walks of list_files and of *)
(* the searches, and the paths beneath them fail validation.               *)
(***************************************************************************)
C26_TrailingSlashRestrictsTheSame ==
    /\ Tested =>
           \A r \in Slashed :
               /\ FolderRestricts(r, Requested, split(Requested))
                      <=> NamedBy(Requested, r)
               /\ NamedBy(Requested, r) => raised = "in a restricted area"
    /\ (pc = "done" /\ call.op \in WalkOps /\ raised = "none") =>
           \A r \in Slashed :
               \A k \in 1..Len(result) : ~NamedBy(dirname(result[k]), r)

\* the extension of the path is, but for the case of its letters, on the
\* list of the extensions of binary files
EqualButForCase(a, b) ==
    /\ Len(a) = Len(b)
    /\ \A i \in 1..Len(a) :
           LowerLetter(CharAt(a, i)) = LowerLetter(CharAt(b, i))

OnDenyList(ext) == \E e \in binary_extensions : EqualButForCase(ext, e)

DenyListed(path) == OnDenyList(splitext_ext(path))

\* the search passed over the file of the attempt without opening it
PassedOver(a) ==
    /\ a.tried = <<>>
    /\ a.skip # "no"
    /\ ~IsHit(a)

(***************************************************************************)
(* C27: search_files_by_content skips a file, without opening it, if the   *)
(* file is restricted, or larger than 5 MiB, or has an extension of the    *)
(* list of binary extensions, compared without regard to case (X.PNG as    *)
(* x.png); so no file with such an extension is ever returned, whatever it *)
(* holds.                                                                  *)
(***************************************************************************)
C27_BinaryLargeRestrictedSkipped ==
    Done("search_files_by_content") =>
        /\ \A i \in 1..Len(attempts) :
               (\/ _is_restricted_path(attempts[i].path)
                \/ OverLimit(attempts[i].path)
                \/ DenyListed(attempts[i].path))
                   => PassedOver(attempts[i])
        /\ \A k \in 1..Len(result) :
               /\ ~DenyListed(result[k])
               /\ ~OverLimit(result[k])
               /\ ~_is_restricted_path(result[k])

\* a search for "needle" has returned without X.PNG, which holds "needle"
\* and was passed over for its extension
C27_UpperCaseExtensionSkipped ==
    /\ Done("search_files_by_content")
    /\ raised = "none"
    /\ call.query = b_needle
    /\ "/data2/X.PNG" \notin Range(result)
    /\ "/data2/x.txt" \in Range(result)
    /\ \E i \in 1..Len(attempts) :
           /\ attempts[i].path = "/data2/X.PNG"
           /\ attempts[i].skip = "binary"
           /\ PassedOver(attempts[i])
           /\ Content(realpath(attempts[i].path)) = b_needle

\* the files of a list whose basename matches the pattern, in their order
Named(files, pattern) ==
    SelectSeq(files, LAMBDA f : fnmatch(basename(f), pattern))

\* what list_files yields for the path and the depth of the call
Listed == list_files(call.path, call.depth)

RestrictedRoot(root) ==
    \/ \E r \in AbsoluteFolders : PlainAbsolute(r) /\ InsideRoot(root, r)
    \/ \E r \in RelativeFolders : HasRun(Segments(root), Segments(r))

RestrictedRoots == {root \in Range(root_folders) : RestrictedRoot(root)}

(***************************************************************************)
(* C29: the constructor does not test the roots against the restrictions:  *)
(* with a root that a restriction matches (it lies under a built-in        *)
(* absolute prefix such as /etc, or one of its segments matches a relative *)
(* pattern such as node_modules) construction succeeds all the same, and   *)
(* from then on every list_files, read_file, get_file_info,                *)
(* get_file_mimetype and search call on that root or on a path beneath it  *)
(* fails with the restricted-path error.                                   *)
(***************************************************************************)
C29_RestrictedRootServesNothing ==
    /\ pc = "failed" =>
           \E i \in 1..Len(Entries) : ~isdir(abspath(normpath(Entries[i])))
    /\ (pc = "done" /\ call.path.given
        /\ \E root \in RestrictedRoots : InsideRoot(Requested, root)) =>
           /\ raised = "in a restricted area"
           /\ result = <<>>
           /\ opened = {}
           /\ statted = {}
    /\ (pc = "done" /\ ~call.path.given /\ RestrictedRoots # {}) =>
           /\ raised = "in a restricted area"
           /\ result = <<>>

\* a manager whose only root is restricted has refused to read a file that
\* lies in that root
C29_FileInRootRefused ==
    /\ Done("read_file")
    /\ root_folders = <<dirname(Requested)>>
    /\ RestrictedRoots = {dirname(Requested)}
    /\ isfile(Requested)
    /\ raised = "in a restricted area"

\* main has ended: the server is up, or the process has gone
Started == call.op = "main" /\ pc # "new"

\* a server was made and serves its tools
ServerUp == pc \in {"idle", "done"}

(***************************************************************************)
(* C30: the start-up never yields a server with an empty root set: when    *)
(* neither --roots nor MCP_ROOT_FOLDERS supplies a root the home directory *)
(* of the user is the single root, and when no configured root is an       *)
(* existing directory the process exits with an error before a FileMCP is  *)
(* made.                                                                   *)
(***************************************************************************)
C30_ServerHasARoot ==
    /\ ServerUp => root_folders # <<>>
    /\ (Started /\ call.roots.list = <<>>
        /\ (~call.env.given \/ call.env.value = "")) =>
           (ServerUp /\ root_folders = <<expanduser_home>>)
    /\ (Started
        /\ valid_paths(ConfiguredRoots(call.roots, call.env)) = <<>>) =>
           pc = "exited"
====
